---- MODULE Spec2Model ----
(***************************************************************************)
(* Job orchestration of global-trade-analysis (app/jobs/runtime.py): the   *)
(* job registry, the per-job execution locks, the job runner and the cron  *)
(* scheduler, as a state machine over the database tables and the          *)
(* module-level globals, with one program counter per calling thread.      *)
(*                                                                         *)
(* Threads are the request threads of the sync FastAPI handlers            *)
(* (app/web/routes.py) and the worker threads of the BackgroundScheduler.  *)
(* Database rows written by a session and not yet committed carry the      *)
(* owning thread in their tx field; a rollback removes them, a commit      *)
(* clears the field.  Other sessions read committed rows only.             *)
(***************************************************************************)
EXTENDS Integers, Sequences, FiniteSets, TLC

\* ------------------------------------------------------------------ bounds

\* Largest value of the clock (in half milliseconds).
MaxNow == 1
\* Largest number of job_runs rows (run ids drawn from the sequence) when only
\* run requests are issued.
MaxRuns == 2
\* The same when the scheduler's operations are issued as well.
MaxSchedRuns == 1
\* Largest number of BackgroundScheduler objects created by init_scheduler.
MaxSched == 2
\* Runs started on top of a store that already holds past runs.
MaxCleanupRuns == 1

\* The clock counts half milliseconds.
TicksPerMs == 2
\* The clock units in a day of the retention calendar: timedelta(days=k) is
\* k * TicksPerDay units. The calendar is compressed; the retention cut-off
\* compares instants only.
TicksPerDay == 2

Threads == {"t1", "t2"}

\* --------------------------------------------------------- Python values

None == -1
NoneStr == "<None>"
NoThread == ""
NoLock == <<>>
NoJob == <<>>
EmptyDict == <<>>

PyNone == [t |-> "none"]
PyBool(b) == [t |-> "bool", b |-> b]
PyStr(s) == [t |-> "str", s |-> s]
PyInt(i) == [t |-> "int", i |-> i]
PyList(l) == [t |-> "list", l |-> l]
\* A float, by its value in tenths.
PyFloat(tenths) == [t |-> "float", tenths |-> tenths]
\* A dict with str keys: its items in insertion order.
PyDict(items) == [t |-> "dict", items |-> items]
\* A datetime, by its date.
PyDatetime(d) == [t |-> "datetime", d |-> d]

\* dict.get(key)
Get(d, k) == IF k \in DOMAIN d THEN d[k] ELSE PyNone

\* dict(d); d.update(o)
Update(d, o) ==
    [k \in (DOMAIN d) \cup (DOMAIN o) |-> IF k \in DOMAIN o THEN o[k] ELSE d[k]]

\* str.strip().lower() on the strings the model passes as parameter values
StripLower(s) ==
    CASE s = " YES " -> "yes"
      [] s = "Off" -> "off"
      [] s = "Global" -> "global"
      [] s = "India" -> "india"
      [] s = "INDIA" -> "india"
      [] s = " India" -> "india"
      [] s = "Mars" -> "mars"
      [] s = "Mexico" -> "mexico"
      [] s = " mexico " -> "mexico"
      [] s = " mexico" -> "mexico"
      [] s = "Singapore" -> "singapore"
      [] s = "Hong Kong" -> "hong kong"
      [] s = "EN" -> "en"
      [] OTHER -> s

\* str.strip() on the texts the forms submit.
Strip(s) ==
    CASE s = " 0 4 * * * " -> "0 4 * * *"
      [] s = "   " -> ""
      [] s = " mexico " -> "mexico"
      [] s = " mexico" -> "mexico"
      [] s = " India" -> "India"
      [] OTHER -> s

\* str(value or default)
StrOr(value, default) ==
    IF value.t = "str" THEN (IF value.s = "" THEN default ELSE value.s)
    ELSE IF value.t = "bool" THEN (IF value.b THEN "True" ELSE default)
    ELSE IF value.t = "list" THEN (IF value.l = <<>> THEN default ELSE "[...]")
    ELSE default

_as_bool(value, default) ==
    IF value.t = "none" THEN default
    ELSE IF value.t = "bool" THEN value.b
    ELSE IF value.t = "int" THEN value.i # 0
    ELSE IF value.t = "float" THEN value.tenths # 0
    ELSE IF value.t = "str"
         THEN LET v == StripLower(value.s)
              IN IF v \in {"1", "true", "yes", "y", "on"} THEN TRUE
                 ELSE IF v \in {"0", "false", "no", "n", "off"} THEN FALSE
                 ELSE default
    ELSE default

\* int(value) of a string: surrounding white space is dropped, an optional
\* sign and decimal digits are read, anything else raises ValueError.
IntOfStr ==
    [s \in {"30", " 40 ", "-3", "abc", "", "3.5"} |->
        IF s = "30" THEN [ok |-> TRUE, i |-> 30]
        ELSE IF s = " 40 " THEN [ok |-> TRUE, i |-> 40]
        ELSE IF s = "-3" THEN [ok |-> TRUE, i |-> 0 - 3]
        ELSE [ok |-> FALSE, i |-> 0]]

\* int(value) of a float: the value truncated towards zero.
IntOfFloat(tenths) == IF tenths >= 0 THEN tenths \div 10 ELSE 0 - ((0 - tenths) \div 10)

\* _as_int(value, default, min_value, max_value)
_as_int(value, default, min_value, max_value) ==
    LET parsed == IF value.t = "int" THEN [ok |-> TRUE, i |-> value.i]
                  ELSE IF value.t = "bool" THEN [ok |-> TRUE, i |-> IF value.b THEN 1 ELSE 0]
                  ELSE IF value.t = "float" THEN [ok |-> TRUE, i |-> IntOfFloat(value.tenths)]
                  ELSE IF value.t = "str" THEN IntOfStr[value.s]
                  ELSE [ok |-> FALSE, i |-> 0]
    IN IF ~parsed.ok THEN default
       ELSE IF parsed.i < min_value THEN min_value
       ELSE IF parsed.i > max_value THEN max_value
       ELSE parsed.i

\* ------------------------------------------------------------- constants

ALLOWED_GEOS == <<"Global", "India", "Mexico", "Singapore", "Hong Kong">>
ALLOWED_INSIGHT_CARD_KEYS == {"trade_flow", "wealth", "finance"}
ALLOWED_INSIGHT_TAB_KEYS ==
    {"corridors", "wci", "portwatch", "exim", "balance", "gdp_pc", "cons", "age",
     "disp_pc", "disp_hh", "industry", "country"}

\* canonical_map.get(key), "" for no entry
CanonicalGeo(key) ==
    LET hits == {i \in 1..Len(ALLOWED_GEOS) : StripLower(ALLOWED_GEOS[i]) = key}
    IN IF hits = {} THEN "" ELSE ALLOWED_GEOS[CHOOSE i \in hits : TRUE]

\* The elements of a sequence, first occurrences only, "" dropped.
RECURSIVE Distinct(_, _)
Distinct(items, out) ==
    IF items = <<>> THEN out
    ELSE LET x == Head(items)
         IN Distinct(Tail(items),
                     IF x = "" \/ \E i \in 1..Len(out) : out[i] = x THEN out
                     ELSE Append(out, x))

\* value.split(",") on the texts passed as geo_list
SplitCommas(s) ==
    IF s = "India, mexico" THEN <<"India", " mexico">>
    ELSE IF s = "Mars, India" THEN <<"Mars", " India">>
    ELSE IF s = "INDIA,India" THEN <<"INDIA", "India">>
    ELSE <<s>>

\* _as_geo_list appending every canonical name, without the test
\* "geo not in out".
_as_geo_list_with_repeats(value) ==
    IF value.t \notin {"str", "list"} THEN ALLOWED_GEOS
    ELSE LET items == IF value.t = "str" THEN SplitCommas(value.s) ELSE value.l
             geos == [i \in 1..Len(items) |-> CanonicalGeo(StripLower(items[i]))]
             out == SelectSeq(geos, LAMBDA g : g # "")
         IN IF out = <<>> THEN ALLOWED_GEOS ELSE out

\* _as_geo_list(value)
_as_geo_list(value) ==
    IF value.t \notin {"str", "list"} THEN ALLOWED_GEOS
    ELSE LET items == IF value.t = "str" THEN SplitCommas(value.s) ELSE value.l
             geos == [i \in 1..Len(items) |-> CanonicalGeo(StripLower(items[i]))]
             out == Distinct(geos, <<>>)
         IN IF out = <<>> THEN ALLOWED_GEOS ELSE out

\* _canonical_scope(value), "" for None
_canonical_scope(s) ==
    IF Strip(s) = "" THEN ""
    ELSE IF StripLower(s) = "global" THEN "global"
    ELSE CanonicalGeo(StripLower(s))

\* _normalize_scope_list(value)
_normalize_scope_list(value) ==
    IF value.t = "none" \/ value = PyStr("") THEN <<>>
    ELSE LET items == IF value.t = "list" THEN value.l ELSE <<StrOr(value, "")>>
         IN Distinct([i \in 1..Len(items) |-> _canonical_scope(items[i])], <<>>)

JOB_RUN_BY == {"scheduler", "manual", "startup", "api"}
DEFAULT_CRON_EVERY_10_MIN == "*/10 * * * *"
TZ == "Asia/Shanghai"

VARIABLE JOB_RETENTION_DAYS   \* settings.JOB_RETENTION_DAYS, fixed for the process

\* The keys of the static table JOB_SPECS that the checked behaviours carry,
\* fixed for the process: the two jobs that record one global-scope snapshot
\* per run, and with them the jobs a specification is about.
VARIABLE job_table

SnapshotJobs == {"trade_corridors", "wealth_disposable_latest"}

JobIds == job_table

JOB_SPECS ==
    [j \in JobIds |->
        [job_id |-> j,
         cron_expr |-> IF j = "generate_homepage_insights" THEN "0 7 * * *"
                       ELSE DEFAULT_CRON_EVERY_10_MIN,
         timezone |-> TZ,
         default_params |->
            IF j = "trade_corridors"
            THEN [force_wci |-> PyBool(FALSE)]
            ELSE IF j = "cleanup_snapshots"
            THEN [keep_days |-> PyInt(JOB_RETENTION_DAYS)]
            ELSE IF j = "generate_homepage_insights"
            THEN EmptyDict
            ELSE IF j = "trade_exim_5y"
            THEN [geo_list |-> PyList(ALLOWED_GEOS), years |-> PyInt(5),
                  end_year |-> PyNone, force |-> PyBool(FALSE)]
            ELSE [force |-> PyBool(FALSE)]]]

VARIABLE now           \* the wall clock read by _now_utc()

\* datetime.year: the clock starts on the last day of a calendar year, and its
\* last reading lies in the year after.
year(t) == IF t < MaxNow THEN 2025 ELSE 2026

\* _now_utc().year
_now_year == year(now)

\* _normalize_trade_exim, lines 193-204; the geo_list is kept as the list
\* _as_geo_list returns.
_normalize_trade_exim(raw) ==
    LET end_year == Get(raw, "end_year")
    IN [geo_list |-> PyList(_as_geo_list(Get(raw, "geo_list"))),
        years |-> PyInt(_as_int(Get(raw, "years"), 5, 2, 20)),
        end_year |-> PyInt(IF end_year = PyNone THEN _now_year - 1
                           ELSE _as_int(end_year, _now_year - 1, 1960, _now_year)),
        force |-> PyBool(_as_bool(Get(raw, "force"), FALSE))]

\* _normalize_wealth_age_structure, lines 231-243
_normalize_wealth_age_structure(raw) ==
    LET end_year == Get(raw, "end_year")
    IN [geo_list |-> PyList(_as_geo_list(Get(raw, "geo_list"))),
        end_year |-> PyInt(IF end_year = PyNone THEN _now_year - 1
                           ELSE _as_int(end_year, _now_year - 1, 1960, _now_year)),
        lookback_years |-> PyInt(_as_int(Get(raw, "lookback_years"), 20, 5, 60)),
        force |-> PyBool(_as_bool(Get(raw, "force"), FALSE))]

_normalize_trade_corridors(raw) == [force_wci |-> PyBool(_as_bool(Get(raw, "force_wci"), FALSE))]

_normalize_wealth_disposable(raw) == [force |-> PyBool(_as_bool(Get(raw, "force"), FALSE))]

_normalize_generate_homepage_insights(raw) ==
    LET card_key == Strip(StrOr(Get(raw, "card_key"), ""))
        tab == Get(raw, "tab_key")
        tab_key == Strip(StrOr(IF StrOr(tab, "") # "" THEN tab ELSE Get(raw, "type"), ""))
        lang == StripLower(StrOr(Get(raw, "lang"), "en"))
    IN [lang |-> PyStr(IF lang = "" THEN "en" ELSE lang),
        geo_list |-> PyList(_as_geo_list(Get(raw, "geo_list"))),
        scope |-> PyList(_normalize_scope_list(Get(raw, "scope"))),
        card_key |-> PyStr(IF card_key \in ALLOWED_INSIGHT_CARD_KEYS THEN card_key ELSE ""),
        tab_key |-> PyStr(IF tab_key \in ALLOWED_INSIGHT_TAB_KEYS THEN tab_key ELSE ""),
        force_regen |-> PyBool(_as_bool(Get(raw, "force_regen"), FALSE)),
        force_all |-> PyBool(_as_bool(Get(raw, "force_all"), FALSE))]

_normalize_cleanup(raw) ==
    [keep_days |-> PyInt(_as_int(Get(raw, "keep_days"), JOB_RETENTION_DAYS, 1, 365))]

\* spec.normalize_params(raw)
normalize_params(j, raw) ==
    IF j = "trade_corridors" THEN _normalize_trade_corridors(raw)
    ELSE IF j = "cleanup_snapshots" THEN _normalize_cleanup(raw)
    ELSE IF j = "generate_homepage_insights" THEN _normalize_generate_homepage_insights(raw)
    ELSE IF j = "trade_exim_5y" THEN _normalize_trade_exim(raw)
    ELSE IF j = "wealth_age_structure_latest" THEN _normalize_wealth_age_structure(raw)
    ELSE _normalize_wealth_disposable(raw)

\* The message a job body returns.
RunnerMessage(j) ==
    IF j = "trade_corridors" THEN "trade corridors snapshot saved"
    ELSE "wealth disposable snapshot saved"

\* str(exc) of the exceptions a job body raises.
BodyErrors == {"upstream exploded"}

\* ------------------------------------------------------------------ state

VARIABLES
    JOBS_ENABLED,      \* settings.JOBS_ENABLED, fixed for the process
    job_definitions,   \* table job_definitions: job_id -> row
    job_runs,          \* table job_runs: id -> row
    next_run_id,       \* the sequence behind job_runs.id
    widget_snapshots,  \* table widget_snapshots: id -> row
    next_snapshot_id,  \* the sequence behind widget_snapshots.id
    widget_insights,   \* table widget_insights: id -> row
    widget_insight_job_state,  \* table widget_insight_job_state: key -> value
    public_contexts,   \* table public_contexts: id -> row
    _LOCKS,            \* the module's lock map: job_id -> lock object
    locked,            \* lock object -> thread that acquired it (held locks only)
    _SCHEDULER,        \* the module's scheduler singleton, None or a scheduler id
    schedulers,        \* scheduler id -> [running, jobs]
    _SCHED_LOCK,       \* thread holding _SCHED_LOCK, or NoThread
    th,                \* thread -> its frame (program counter and locals)
    _CACHE,            \* web/worldbank.py's cache: key -> [value, expires_at]
    run_budget         \* the number of run rows the checked behaviours may create

vars == <<job_table, JOBS_ENABLED, JOB_RETENTION_DAYS, now, job_definitions, job_runs, next_run_id,
          widget_snapshots, next_snapshot_id,
          widget_insights, widget_insight_job_state, public_contexts, _LOCKS, locked,
          _SCHEDULER, schedulers, _SCHED_LOCK, th, _CACHE, run_budget>>

dbVars == <<job_definitions, job_runs, next_run_id, widget_snapshots, next_snapshot_id>>
insightVars == <<widget_insights, widget_insight_job_state, public_contexts>>
lockVars == <<_LOCKS, locked>>
envVars == <<job_table, JOBS_ENABLED, JOB_RETENTION_DAYS, now, run_budget, _CACHE>>
schedVars == <<_SCHEDULER, schedulers, _SCHED_LOCK>>

\* The rows a session has deleted and not yet committed.
NoDeletes == [widget_snapshots |-> {}, job_runs |-> {}]

\* A result dict; a key the dict lacks reads as None.
NoResult == [ok |-> FALSE, status |-> "", message |-> NoneStr, error |-> NoneStr, run_id |-> None]

\* A thread that executes nothing of the module.
IdleFrame ==
    [pc |-> "idle", op |-> "", job_id |-> "", params_override |-> EmptyDict,
     triggered_by |-> "", via |-> NoJob, lock |-> NoLock, started |-> None,
     run_id |-> None, status |-> "", error |-> NoneStr, message |-> "",
     params |-> EmptyDict, last_success_at |-> None, missing |-> {}, exc |-> "",
     result |-> NoResult,
     args |-> <<>>, cron_expr |-> "", timezone_name |-> "", enabled |-> FALSE,
     default_params |-> EmptyDict, loaded |-> <<>>, scheduler |-> None, rows |-> <<>>,
     snapshot |-> None, by_scope |-> <<>>, fetched |-> <<>>, deleted |-> NoDeletes,
     cursor_write |-> <<>>, purged |-> {}, before_count |-> 0, payloads |-> <<>>, geos_to_process |-> <<>>, llm |-> <<>>]

\* _now_utc()
_now_utc == now

\* ---------------------------------------------------------------- registry

NewJobDefinition(spec) ==
    [cron_expr |-> spec.cron_expr, timezone |-> spec.timezone, enabled |-> TRUE,
     default_params |-> spec.default_params,
     last_scheduled_at |-> None, last_success_at |-> None]

\* Where a thread goes when the function it is in returns or raises.
Returned(f, res) == [f EXCEPT !.pc = "done", !.result = res]
Raised(f, what) == [f EXCEPT !.pc = "raised", !.exc = what]

\* ------------------------------------------------------------ job runner

\* Calls that have not yet drawn their run id.
BeforeInsert == {"get_lock", "lock_store", "lock_return", "acquire", "seed", "seed_commit", "open"}

RunsInFlight ==
    Cardinality({c \in Threads : th[c].op = "run_job_now" /\ th[c].pc \in BeforeInsert})

\* run_job_now with the kill-switch tested before the job id.
run_job_now_switch_first(c, job_id, params_override, triggered_by, via) ==
    LET f == [IdleFrame EXCEPT !.op = "run_job_now", !.job_id = job_id,
                               !.params_override = params_override,
                               !.triggered_by = triggered_by, !.via = via]
    IN /\ th[c].pc = "idle"
       /\ IF ~JOBS_ENABLED
          THEN th' = [th EXCEPT ![c] =
                        Returned(f, [NoResult EXCEPT !.status = "skipped",
                                        !.message = "jobs are disabled by JOBS_ENABLED=false"])]
          ELSE IF job_id \notin DOMAIN JOB_SPECS
          THEN th' = [th EXCEPT ![c] =
                        Returned(f, [NoResult EXCEPT !.status = "failed", !.error = "unknown job"])]
          ELSE /\ next_run_id + RunsInFlight <= run_budget
               /\ th' = [th EXCEPT ![c] =
                           [f EXCEPT !.pc = "get_lock",
                                     !.triggered_by = IF triggered_by \in JOB_RUN_BY
                                                      THEN triggered_by ELSE "manual"]]
       /\ UNCHANGED <<envVars, insightVars, dbVars, lockVars>>

\* run_job_now, lines 1231-1243: the guards checked before the lock.  via is the
\* scheduler job that made the call (NoJob for a request thread).
run_job_now(c, job_id, params_override, triggered_by, via) ==
    LET f == [IdleFrame EXCEPT !.op = "run_job_now", !.job_id = job_id,
                               !.params_override = params_override,
                               !.triggered_by = triggered_by, !.via = via]
    IN /\ th[c].pc = "idle"
       /\ IF job_id \notin DOMAIN JOB_SPECS
          THEN th' = [th EXCEPT ![c] =
                        Returned(f, [NoResult EXCEPT !.status = "failed", !.error = "unknown job"])]
          ELSE IF ~JOBS_ENABLED
          THEN th' = [th EXCEPT ![c] =
                        Returned(f, [NoResult EXCEPT !.status = "skipped",
                                        !.message = "jobs are disabled by JOBS_ENABLED=false"])]
          ELSE /\ next_run_id + RunsInFlight <= run_budget
               /\ th' = [th EXCEPT ![c] =
                           [f EXCEPT !.pc = "get_lock",
                                     !.triggered_by = IF triggered_by \in JOB_RUN_BY
                                                      THEN triggered_by ELSE "manual"]]
       /\ UNCHANGED <<envVars, insightVars, dbVars, lockVars>>

\* _get_lock, line 1225: the membership test.
_get_lock_test(c) ==
    /\ th[c].pc = "get_lock"
    /\ th' = [th EXCEPT ![c].pc = IF th[c].job_id \notin DOMAIN _LOCKS
                                  THEN "lock_store" ELSE "lock_return"]
    /\ UNCHANGED <<envVars, insightVars, dbVars, lockVars, schedVars>>

\* _get_lock, line 1226: a new lock object is stored under the job id.
_get_lock_store(c) ==
    /\ th[c].pc = "lock_store"
    /\ _LOCKS' = [j \in (DOMAIN _LOCKS) \cup {th[c].job_id} |->
                    IF j = th[c].job_id THEN <<j, c>> ELSE _LOCKS[j]]
    /\ th' = [th EXCEPT ![c].pc = "lock_return"]
    /\ UNCHANGED <<envVars, insightVars, dbVars, locked, schedVars>>

\* _get_lock, line 1227: the map is read again for the return value.
_get_lock_return(c) ==
    /\ th[c].pc = "lock_return"
    /\ th' = [th EXCEPT ![c].pc = "acquire", ![c].lock = _LOCKS[th[c].job_id]]
    /\ UNCHANGED <<envVars, insightVars, dbVars, lockVars, schedVars>>

\* run_job_now going on without the lock when the lock is held.
run_job_now_acquire_anyway(c) ==
    /\ th[c].pc = "acquire"
    /\ locked' = [l \in (DOMAIN locked) \cup {th[c].lock} |->
                    IF l = th[c].lock THEN c ELSE locked[l]]
    /\ th' = [th EXCEPT ![c].pc = "seed", ![c].started = _now_utc,
                        ![c].status = "failed", ![c].message = ""]
    /\ UNCHANGED <<envVars, insightVars, dbVars, _LOCKS, schedVars>>

\* run_job_now, lines 1246-1253: lock.acquire(blocking=False).
run_job_now_acquire(c) ==
    /\ th[c].pc = "acquire"
    /\ IF th[c].lock \in DOMAIN locked
       THEN /\ th' = [th EXCEPT ![c] =
                        Returned(@, [NoResult EXCEPT !.status = "skipped",
                                        !.message = "job is already running"])]
            /\ UNCHANGED locked
       ELSE /\ locked' = [l \in (DOMAIN locked) \cup {th[c].lock} |->
                            IF l = th[c].lock THEN c ELSE locked[l]]
            /\ th' = [th EXCEPT ![c].pc = "seed", ![c].started = _now_utc,
                                ![c].status = "failed", ![c].message = ""]
    /\ UNCHANGED <<envVars, insightVars, dbVars, _LOCKS, schedVars>>

\* An exception leaves the function the thread is in: run_job_now goes through
\* its finally block, init_scheduler leaves its with-block.
Throw(c, what) ==
    IF th[c].op = "run_job_now"
    THEN /\ th' = [th EXCEPT ![c].pc = "finally", ![c].exc = what]
         /\ UNCHANGED _SCHED_LOCK
    ELSE /\ th' = [th EXCEPT ![c] = Raised(@, what)]
         /\ _SCHED_LOCK' = NoThread

\* _seed_job_definitions, lines 1207-1209: db.get of every declared job.
_seed_job_definitions(c) ==
    /\ th[c].pc = "seed"
    /\ th' = [th EXCEPT ![c].pc = "seed_commit",
                        ![c].missing = JobIds \ DOMAIN job_definitions]
    /\ UNCHANGED <<envVars, insightVars, dbVars, lockVars, schedVars>>

\* _seed_job_definitions writing the declared values over every declared row.
_seed_job_definitions_overwrites(c) ==
    /\ th[c].pc = "seed_commit"
    /\ job_definitions' =
         [j \in (DOMAIN job_definitions) \cup JobIds |->
            IF j \in JobIds THEN NewJobDefinition(JOB_SPECS[j]) ELSE job_definitions[j]]
    /\ th' = [th EXCEPT ![c].pc = IF th[c].op = "run_job_now" THEN "open" ELSE "after_seed",
                        ![c].missing = {}]
    /\ UNCHANGED <<envVars, insightVars, job_runs, next_run_id, widget_snapshots,
                   next_snapshot_id, lockVars, schedVars>>

\* _seed_job_definitions, lines 1210-1221: the rows found absent are inserted
\* and committed; a row another session inserted meanwhile violates the
\* primary key and the commit raises.
_seed_job_definitions_commit(c) ==
    /\ th[c].pc = "seed_commit"
    /\ IF th[c].missing \cap DOMAIN job_definitions # {}
       THEN /\ Throw(c, "IntegrityError")
            /\ UNCHANGED job_definitions
       ELSE /\ job_definitions' =
                 [j \in (DOMAIN job_definitions) \cup th[c].missing |->
                    IF j \in th[c].missing THEN NewJobDefinition(JOB_SPECS[j])
                    ELSE job_definitions[j]]
            /\ th' = [th EXCEPT ![c].pc = IF th[c].op = "run_job_now"
                                          THEN "open" ELSE "after_seed",
                                ![c].missing = {}]
            /\ UNCHANGED _SCHED_LOCK
    /\ UNCHANGED <<envVars, insightVars, job_runs, next_run_id, widget_snapshots,
                   next_snapshot_id, lockVars, _SCHEDULER, schedulers>>

\* The database refuses the commit of _seed_job_definitions (line 1221).
seed_commit_fails(c) ==
    /\ th[c].pc = "seed_commit"
    /\ Throw(c, "OperationalError")
    /\ UNCHANGED <<envVars, insightVars, dbVars, lockVars, _SCHEDULER, schedulers>>

\* The sessions that hold the row of a job definition locked: run_job_now
\* calls that have flushed last_scheduled_at (line 1280) and have neither
\* committed nor rolled back. The database (PostgreSQL, app/config.py line
\* 23) makes a second UPDATE of the row wait for them.
JobDefLockedBy(j) ==
    {d \in Threads : /\ th[d].op = "run_job_now"
                     /\ th[d].job_id = j
                     /\ th[d].pc \in {"body", "generate", "finalize"}}

\* run_job_now refusing the run of a job whose definition is disabled.
run_job_now_open_enabled_only(c) ==
    LET j == th[c].job_id
    IN /\ th[c].pc = "open"
       /\ IF j \notin DOMAIN job_definitions \/ ~job_definitions[j].enabled
          THEN /\ Throw(c, "RuntimeError")
               /\ UNCHANGED <<job_runs, next_run_id>>
          ELSE LET raw == IF th[c].params_override # EmptyDict
                          THEN Update(job_definitions[j].default_params, th[c].params_override)
                          ELSE job_definitions[j].default_params
                   params == normalize_params(j, raw)
                   run == [job_id |-> j, status |-> "running",
                           triggered_by |-> th[c].triggered_by, params |-> params,
                           message |-> "", error |-> NoneStr,
                           started_at |-> th[c].started, finished_at |-> None,
                           duration_ms |-> None, tx |-> c]
               IN /\ job_runs' = [i \in (DOMAIN job_runs) \cup {next_run_id} |->
                                    IF i = next_run_id THEN run ELSE job_runs[i]]
                  /\ next_run_id' = next_run_id + 1
                  /\ th' = [th EXCEPT ![c].pc = "schedule", ![c].params = params,
                                      ![c].run_id = next_run_id]
                  /\ UNCHANGED _SCHED_LOCK
       /\ UNCHANGED <<envVars, insightVars, job_definitions, widget_snapshots,
                      next_snapshot_id, lockVars, _SCHEDULER, schedulers>>

\* run_job_now laying the stored defaults over the overrides.
run_job_now_open_defaults_win(c) ==
    LET j == th[c].job_id
    IN /\ th[c].pc = "open"
       /\ IF j \notin DOMAIN job_definitions
          THEN /\ Throw(c, "RuntimeError")
               /\ UNCHANGED <<job_runs, next_run_id>>
          ELSE LET raw == IF th[c].params_override # EmptyDict
                          THEN Update(th[c].params_override, job_definitions[j].default_params)
                          ELSE job_definitions[j].default_params
                   params == normalize_params(j, raw)
                   run == [job_id |-> j, status |-> "running",
                           triggered_by |-> th[c].triggered_by, params |-> params,
                           message |-> "", error |-> NoneStr,
                           started_at |-> th[c].started, finished_at |-> None,
                           duration_ms |-> None, tx |-> c]
               IN /\ job_runs' = [i \in (DOMAIN job_runs) \cup {next_run_id} |->
                                    IF i = next_run_id THEN run ELSE job_runs[i]]
                  /\ next_run_id' = next_run_id + 1
                  /\ th' = [th EXCEPT ![c].pc = "schedule", ![c].params = params,
                                      ![c].run_id = next_run_id]
                  /\ UNCHANGED _SCHED_LOCK
       /\ UNCHANGED <<envVars, insightVars, job_definitions, widget_snapshots,
                      next_snapshot_id, lockVars, _SCHEDULER, schedulers>>

\* run_job_now, lines 1258-1277: the definition is loaded, the parameters are
\* merged and normalized, the run row is flushed in status running.
run_job_now_open(c) ==
    LET j == th[c].job_id
    IN /\ th[c].pc = "open"
       /\ IF j \notin DOMAIN job_definitions
          THEN /\ Throw(c, "RuntimeError")
               /\ UNCHANGED <<job_runs, next_run_id>>
          ELSE LET raw == IF th[c].params_override # EmptyDict
                          THEN Update(job_definitions[j].default_params, th[c].params_override)
                          ELSE job_definitions[j].default_params
                   params == normalize_params(j, raw)
                   run == [job_id |-> j, status |-> "running",
                           triggered_by |-> th[c].triggered_by, params |-> params,
                           message |-> "", error |-> NoneStr,
                           started_at |-> th[c].started, finished_at |-> None,
                           duration_ms |-> None, tx |-> c]
               IN /\ job_runs' = [i \in (DOMAIN job_runs) \cup {next_run_id} |->
                                    IF i = next_run_id THEN run ELSE job_runs[i]]
                  /\ next_run_id' = next_run_id + 1
                  /\ th' = [th EXCEPT ![c].pc = "schedule", ![c].params = params,
                                      ![c].run_id = next_run_id]
                  /\ UNCHANGED _SCHED_LOCK
       /\ UNCHANGED <<envVars, insightVars, job_definitions, widget_snapshots,
                      next_snapshot_id, lockVars, _SCHEDULER, schedulers>>

\* run_job_now, lines 1279-1280: last_scheduled_at is set and flushed; the
\* UPDATE waits while another session holds the row locked. The value is
\* written to job_definitions by the commit.
run_job_now_schedule(c) ==
    /\ th[c].pc = "schedule"
    /\ JobDefLockedBy(th[c].job_id) = {}
    /\ th' = [th EXCEPT ![c].pc = "body"]
    /\ UNCHANGED <<envVars, insightVars, dbVars, lockVars, schedVars>>

\* The rows of a table without those the session of c has not committed.
RolledBack(table, c) == [i \in {k \in DOMAIN table : table[k].tx # c} |-> table[i]]

\* The rows of a table with those of the session of c committed.
Committed(table, c) ==
    [i \in DOMAIN table |-> IF table[i].tx = c THEN [table[i] EXCEPT !.tx = NoThread] ELSE table[i]]

\* _run_trade_corridors line 281 and _run_wealth_disposable line 399: the
\* note of a source that declares no time.
SourceNote(widget_key) ==
    IF widget_key = "trade_corridors" THEN "MVP stub; source time not applicable"
    ELSE "source update time not declared by WPR page; kept NULL"

\* The WidgetSnapshot row _record_snapshot builds, lines 167-179.
WidgetSnapshot(c, widget_key, scope, is_stale, job_run_id, source_updated_at, source_updated_at_note) ==
    [widget_key |-> widget_key, scope |-> scope, is_stale |-> is_stale,
     fetched_at |-> _now_utc, source_updated_at |-> source_updated_at,
     source_updated_at_note |-> source_updated_at_note,
     job_run_id |-> job_run_id, tx |-> c]

\* _record_snapshot for a source that declares no time: a row is added to the
\* session.
_record_snapshot(c, widget_key, scope, is_stale, job_run_id) ==
    /\ widget_snapshots' =
         [i \in (DOMAIN widget_snapshots) \cup {next_snapshot_id} |->
            IF i = next_snapshot_id
            THEN WidgetSnapshot(c, widget_key, scope, is_stale, job_run_id, None,
                                SourceNote(widget_key))
            ELSE widget_snapshots[i]]
    /\ next_snapshot_id' = next_snapshot_id + 1

\* run_job_now, lines 1283-1285, with _run_trade_corridors and
\* _run_wealth_disposable: the fetcher answers (ok or not), the snapshot is
\* recorded and the body returns its message.
runner_returns(c, fetch_ok) ==
    /\ th[c].pc = "body"
    /\ th[c].job_id \in SnapshotJobs
    /\ _record_snapshot(c, th[c].job_id, "global", ~fetch_ok, th[c].run_id)
    /\ th' = [th EXCEPT ![c].pc = "finalize", ![c].message = RunnerMessage(th[c].job_id),
                        ![c].status = "success", ![c].last_success_at = _now_utc,
                        ![c].payloads = <<[ok |-> fetch_ok]>>]
    /\ UNCHANGED <<envVars, insightVars, job_definitions, job_runs, next_run_id,
                   lockVars, schedVars>>

\* GEO_TO_WDI, lines 23-29.
GEO_TO_WDI ==
    [g \in {"Global", "India", "Mexico", "Singapore", "Hong Kong"} |->
        IF g = "Global" THEN "WLD"
        ELSE IF g = "India" THEN "IND"
        ELSE IF g = "Mexico" THEN "MEX"
        ELSE IF g = "Singapore" THEN "SGP"
        ELSE "HKG"]

\* A period is a text kept as the sequence of its characters.
DecimalDigits == <<"0", "1", "2", "3", "4", "5", "6", "7", "8", "9">>

\* str.isdigit, for the ASCII characters the periods are made of.
isdigit(s) ==
    /\ s # <<>>
    /\ \A i \in 1..Len(s) : \E d \in 1..10 : DecimalDigits[d] = s[i]

\* int(s) of a text of decimal digits.
RECURSIVE int(_)
int(s) ==
    IF s = <<>> THEN 0
    ELSE int(SubSeq(s, 1, Len(s) - 1)) * 10
            + (CHOOSE d \in 0..9 : DecimalDigits[d + 1] = s[Len(s)])

\* str.strip, for texts padded with spaces.
RECURSIVE strip(_)
strip(s) ==
    IF s = <<>> THEN s
    ELSE IF Head(s) = " " THEN strip(Tail(s))
    ELSE IF s[Len(s)] = " " THEN strip(SubSeq(s, 1, Len(s) - 1))
    ELSE s

\* datetime(y, m, d, tzinfo=timezone.utc), a UTC calendar day as the number
\* yyyymmdd.
datetime(y, m, d) == y * 10000 + m * 100 + d

\* _infer_annual_source_updated_at with the year-end taken as 1 January.
_infer_annual_source_updated_at_new_year(period) ==
    IF period = PyNone \/ period.s = <<>>
    THEN [at |-> None, note |-> <<"source does not declare an as-of date", PyNone>>]
    ELSE LET t == strip(period.s)
         IN IF ~isdigit(t)
            THEN [at |-> None, note |-> <<"unrecognized period format", PyStr(t)>>]
            ELSE IF int(t) < 1900 \/ int(t) > 2200
            THEN [at |-> None, note |-> <<"out-of-range year", PyInt(int(t))>>]
            ELSE [at |-> datetime(int(t), 1, 1),
                  note |-> <<"inferred from annual period year-end", PyNone>>]

\* _infer_annual_source_updated_at, lines 297-310: the instant and the note.
_infer_annual_source_updated_at(period) ==
    IF period = PyNone \/ period.s = <<>>
    THEN [at |-> None, note |-> <<"source does not declare an as-of date", PyNone>>]
    ELSE LET t == strip(period.s)
         IN IF ~isdigit(t)
            THEN [at |-> None, note |-> <<"unrecognized period format", PyStr(t)>>]
            ELSE IF int(t) < 1900 \/ int(t) > 2200
            THEN [at |-> None, note |-> <<"out-of-range year", PyInt(int(t))>>]
            ELSE [at |-> datetime(int(t), 12, 31),
                  note |-> <<"inferred from annual period year-end", PyNone>>]

\* _run_trade_exim, lines 329-333: the period of the last row of the series
\* with an export or an import value.
RECURSIVE latest_period(_)
latest_period(series) ==
    IF series = <<>> THEN PyNone
    ELSE LET row == series[Len(series)]
         IN IF row.export_usd # None \/ row.import_usd # None THEN row.period
            ELSE latest_period(SubSeq(series, 1, Len(series) - 1))

\* One row of the series fetch_trade_exim_5y merges (worldbank.py 134-140).
SeriesRow(period, export_usd, import_usd) ==
    [period |-> PyStr(period), export_usd |-> export_usd, import_usd |-> import_usd]

\* The series the World Bank answers with, in ascending order of the period:
\* none, one ending in a year with values, one ending in a year without,
\* years without values only, a quarter, a padded year, and years at and
\* beyond the bounds 1900 and 2200.
EximSeries ==
    {<<>>,
     <<SeriesRow(<<"2", "0", "2", "3">>, 1, 1), SeriesRow(<<"2", "0", "2", "4">>, 1, None)>>,
     <<SeriesRow(<<"2", "0", "2", "3">>, None, 1), SeriesRow(<<"2", "0", "2", "4">>, None, None)>>,
     <<SeriesRow(<<"2", "0", "2", "4">>, None, None)>>,
     <<SeriesRow(<<"2", "0", "2", "4", "Q", "1">>, 1, 1)>>,
     <<SeriesRow(<<" ", "2", "0", "2", "4", " ">>, 1, 1)>>,
     <<SeriesRow(<<"1", "8", "9", "9">>, 1, 1)>>,
     <<SeriesRow(<<"1", "9", "0", "0">>, 1, 1)>>,
     <<SeriesRow(<<"2", "2", "0", "0">>, 1, 1)>>,
     <<SeriesRow(<<"2", "2", "0", "1">>, 1, 1)>>}

\* fetch_trade_exim_5y: the payloads the model tells apart; ok is false when
\* one of the two indicator fetches failed.
EximPayloads == [ok : BOOLEAN, series : EximSeries]

\* _run_trade_exim recording no snapshot for a fetch that failed.
_run_trade_exim_drop_failed(c) ==
    LET geo_list == SelectSeq(th[c].params.geo_list.l, LAMBDA g : g \in DOMAIN GEO_TO_WDI)
    IN /\ th[c].pc = "body"
       /\ th[c].job_id = "trade_exim_5y"
       /\ \E india, others \in EximPayloads :
             LET payloads == [i \in 1..Len(geo_list) |->
                                IF GEO_TO_WDI[geo_list[i]] = "IND" THEN india ELSE others]
                 kept == SelectSeq([i \in 1..Len(geo_list) |-> i], LAMBDA i : payloads[i].ok)
                 rows == [k \in 1..Len(kept) |->
                            LET src == _infer_annual_source_updated_at(
                                          latest_period(payloads[kept[k]].series))
                            IN WidgetSnapshot(c, "trade_exim_5y", geo_list[kept[k]], FALSE,
                                              th[c].run_id, src.at, src.note)]
             IN /\ widget_snapshots' =
                     [i \in (DOMAIN widget_snapshots)
                               \cup (next_snapshot_id .. next_snapshot_id + Len(rows) - 1) |->
                        IF i \in DOMAIN widget_snapshots THEN widget_snapshots[i]
                        ELSE rows[i - next_snapshot_id + 1]]
                /\ next_snapshot_id' = next_snapshot_id + Len(rows)
                /\ th' = [th EXCEPT ![c].pc = "finalize", ![c].status = "success",
                                    ![c].last_success_at = _now_utc,
                                    ![c].payloads = payloads,
                                    ![c].message =
                                       [text |-> "trade exim snapshots saved",
                                        count |-> Len(rows), stale |-> 0]]
       /\ UNCHANGED <<envVars, insightVars, job_definitions, job_runs, next_run_id,
                      lockVars, schedVars>>

\* _run_trade_exim, lines 313-351: every geography of the list is fetched
\* (India with one answer, the others with another), the period is inferred
\* and a snapshot recorded, stale when the fetch was not ok; the message
\* counts the snapshots and the stale ones.
_run_trade_exim(c) ==
    LET geo_list == SelectSeq(th[c].params.geo_list.l, LAMBDA g : g \in DOMAIN GEO_TO_WDI)
    IN /\ th[c].pc = "body"
       /\ th[c].job_id = "trade_exim_5y"
       /\ \E india, others \in EximPayloads :
             LET payloads == [i \in 1..Len(geo_list) |->
                                IF GEO_TO_WDI[geo_list[i]] = "IND" THEN india ELSE others]
                 rows == [i \in 1..Len(geo_list) |->
                            LET src == _infer_annual_source_updated_at(
                                          latest_period(payloads[i].series))
                            IN WidgetSnapshot(c, "trade_exim_5y", geo_list[i],
                                              ~payloads[i].ok, th[c].run_id, src.at, src.note)]
                 failed == Cardinality({i \in 1..Len(geo_list) : ~payloads[i].ok})
             IN /\ widget_snapshots' =
                     [i \in (DOMAIN widget_snapshots)
                               \cup (next_snapshot_id .. next_snapshot_id + Len(rows) - 1) |->
                        IF i \in DOMAIN widget_snapshots THEN widget_snapshots[i]
                        ELSE rows[i - next_snapshot_id + 1]]
                /\ next_snapshot_id' = next_snapshot_id + Len(rows)
                /\ th' = [th EXCEPT ![c].pc = "finalize", ![c].status = "success",
                                    ![c].last_success_at = _now_utc,
                                    ![c].payloads = payloads,
                                    ![c].message =
                                       [text |-> "trade exim snapshots saved",
                                        count |-> Len(rows), stale |-> failed]]
       /\ UNCHANGED <<envVars, insightVars, job_definitions, job_runs, next_run_id,
                      lockVars, schedVars>>

\* The rows of a table a statement of the session of c sees: the committed
\* ones and its own.
Visible(table, c) == {i \in DOMAIN table : table[i].tx \in {NoThread, c}}

\* The rows of a table without those of the given ids.
Without(table, ids) == [i \in (DOMAIN table) \ ids |-> table[i]]

\* widget_snapshots.job_run_id, ON DELETE SET NULL.
SetNull(table, run_ids) ==
    [i \in DOMAIN table |->
        IF table[i].job_run_id \in run_ids THEN [table[i] EXCEPT !.job_run_id = None]
        ELSE table[i]]

\* _run_cleanup_snapshots comparing with <= instead of <.
_run_cleanup_snapshots_inclusive(c) ==
    LET keep_days == th[c].params.keep_days.i
        cutoff == _now_utc - keep_days * TicksPerDay
        snapshots == {i \in Visible(widget_snapshots, c) :
                         widget_snapshots[i].fetched_at <= cutoff}
        runs == {i \in Visible(job_runs, c) : job_runs[i].started_at <= cutoff}
    IN /\ th[c].pc = "body"
       /\ th[c].job_id = "cleanup_snapshots"
       /\ th' = [th EXCEPT ![c].pc = "finalize",
                           ![c].deleted = [widget_snapshots |-> snapshots, job_runs |-> runs],
                           ![c].message = [text |-> "cleanup done",
                                           snapshots |-> Cardinality(snapshots),
                                           runs |-> Cardinality(runs),
                                           keep_days |-> keep_days],
                           ![c].status = "success", ![c].last_success_at = _now_utc]
       /\ UNCHANGED <<envVars, insightVars, dbVars, lockVars, schedVars>>

\* run_job_now, lines 1283-1285, with _run_cleanup_snapshots: the two DELETE
\* statements run in the session of the run and take effect with its commit;
\* a DELETE waits for the session that already deleted one of its rows.
_run_cleanup_snapshots(c) ==
    LET keep_days == th[c].params.keep_days.i
        cutoff == _now_utc - keep_days * TicksPerDay
        snapshots == {i \in Visible(widget_snapshots, c) :
                         widget_snapshots[i].fetched_at < cutoff}
        runs == {i \in Visible(job_runs, c) : job_runs[i].started_at < cutoff}
    IN /\ th[c].pc = "body"
       /\ th[c].job_id = "cleanup_snapshots"
       /\ \A d \in Threads \ {c} :
             /\ th[d].deleted.widget_snapshots \cap snapshots = {}
             /\ th[d].deleted.job_runs \cap runs = {}
       /\ th' = [th EXCEPT ![c].pc = "finalize",
                           ![c].deleted = [widget_snapshots |-> snapshots, job_runs |-> runs],
                           ![c].message = [text |-> "cleanup done",
                                           snapshots |-> Cardinality(snapshots),
                                           runs |-> Cardinality(runs),
                                           keep_days |-> keep_days],
                           ![c].status = "success", ![c].last_success_at = _now_utc]
       /\ UNCHANGED <<envVars, insightVars, dbVars, lockVars, schedVars>>

\* ----------------------------------------------------- homepage insights

\* The keys of the dicts the model builds, in the order Python's str
\* comparison gives them.
KeyOrder ==
    <<"card_key", "extra", "fetched_at", "force_regen", "geo", "key", "lang", "ok",
      "payload", "public_contexts", "scope", "snapshots", "source_updated_at",
      "tab_key", "url", "value">>

\* sorted(d.items()) of a dict with str keys.
sorted(items) ==
    LET at(k) == CHOOSE i \in 1..Len(KeyOrder) : KeyOrder[i] = k
    IN SortSeq(items, LAMBDA a, b : at(a[1]) < at(b[1]))

\* The texts of a sequence joined with ", ".
RECURSIVE join(_)
join(texts) ==
    IF texts = <<>> THEN <<>>
    ELSE IF Len(texts) = 1 THEN texts[1]
    ELSE texts[1] \o <<", ">> \o join(Tail(texts))

\* json.dumps(obj, ensure_ascii=False, sort_keys=sort_keys, default=str): the
\* text as the sequence of its tokens; a value that is no JSON value (a
\* datetime) is written as the JSON string of str(value).
RECURSIVE json_dumps(_, _)
json_dumps(obj, sort_keys) ==
    CASE obj.t = "none" -> <<"null">>
      [] obj.t = "bool" -> <<IF obj.b THEN "true" ELSE "false">>
      [] obj.t = "int" -> <<ToString(obj.i)>>
      [] obj.t = "str" -> <<"\"", obj.s, "\"">>
      [] obj.t = "datetime" -> <<"\"", ToString(obj.d), "\"">>
      [] obj.t = "list" ->
            <<"[">> \o join([i \in 1..Len(obj.l) |-> json_dumps(obj.l[i], sort_keys)])
                    \o <<"]">>
      [] obj.t = "dict" ->
            LET items == IF sort_keys THEN sorted(obj.items) ELSE obj.items
            IN <<"{">> \o join([i \in 1..Len(items) |->
                                  <<"\"", items[i][1], "\"", ": ">>
                                     \o json_dumps(items[i][2], sort_keys)])
                       \o <<"}">>

\* digest_for_inputs without sort_keys: the keys in insertion order.
digest_for_inputs_insertion_order(obj) == <<"sha256", json_dumps(obj, FALSE)>>

\* digest_for_inputs(obj): the SHA-256 of the JSON text, taken as free of
\* collisions.
digest_for_inputs(obj) == <<"sha256", json_dumps(obj, TRUE)>>

\* The payload of a snapshot, as far as the model tells payloads apart.
Payload(row) == PyDict(<< <<"ok", PyBool(~row.is_stale)>> >>)

\* The public pages cited per card and tab (the first URL of each list); the
\* corridors tab has none.
URLS(card_key, tab_key) ==
    IF <<card_key, tab_key>> = <<"wealth", "disp_pc">>
    THEN <<"https://worldpopulationreview.com/country-rankings/disposable-income-by-country">>
    ELSE <<>>

\* get_or_refresh_context: the default ttl_minutes=360 in clock units.
ContextTtl == 360 * 60 * 1000 * TicksPerMs

\* The newest rows of a table in the view of the session of c, by the given
\* instant column; pick(row) selects the rows asked for.
Newest(table, c, pick(_), at(_)) ==
    LET rows == {i \in Visible(table, c) : pick(table[i])}
    IN {i \in rows : \A k \in rows : at(table[k]) <= at(table[i])}

\* to_prompt_block(row)
to_prompt_block(row) ==
    PyDict(<< <<"url", PyStr(row.url)>>, <<"fetched_at", PyStr(ToString(row.fetched_at))>>,
              <<"ok", PyBool(row.ok)>> >>)

\* The generations one run of the job makes for the tabs the model carries
\* (trade_flow/corridors for the global scope, wealth/disp_pc per geography),
\* in the order of the body; trade and disp are the snapshot ids read (None
\* for no row).
InsightPlan(trade, disp, geos, want(_, _, _)) ==
    (IF trade # None /\ want("trade_flow", "corridors", "global")
     THEN <<[card_key |-> "trade_flow", tab_key |-> "corridors", scope |-> "global",
             snapshot |-> trade]>>
     ELSE <<>>)
    \o (IF disp = None THEN <<>>
        ELSE LET wanted == SelectSeq(geos, LAMBDA g : want("wealth", "disp_pc", g))
             IN [i \in 1..Len(wanted) |->
                   [card_key |-> "wealth", tab_key |-> "disp_pc", scope |-> wanted[i],
                    snapshot |-> disp]])

\* generate_insight_with_llm: the results the model tells apart.
LLMResults ==
    {[ok |-> TRUE, provider |-> "openai", model |-> "gpt-4o-mini", error |-> ""],
     [ok |-> FALSE, provider |-> "openai", model |-> "gpt-4o-mini",
      error |-> "OPENAI_API_KEY missing"]}

\* _gen_insight, lines 701-709: input_obj for the generation a over the
\* snapshot snap (display_data, a function of the snapshots, is left out).
InputObj(a, lang, snap, extra_context) ==
    PyDict(<< <<"card_key", PyStr(a.card_key)>>, <<"tab_key", PyStr(a.tab_key)>>,
              <<"scope", PyStr(a.scope)>>, <<"lang", PyStr(lang)>>,
              <<"snapshots",
                PyList(<<PyDict(<< <<"key", PyStr(snap.widget_key)>>,
                                   <<"scope", PyStr(snap.scope)>>,
                                   <<"payload", Payload(snap)>> >>)>>)>>,
              <<"extra", extra_context>> >>)

\* _gen_insight writing the fallback text when the generator fails.
_gen_insight_fallback(c, a, lang, extra_context, llm, job_run_id) ==
    LET snap == widget_snapshots[a.snapshot]
        input_obj == InputObj(a, lang, snap, extra_context)
    IN [ok |-> llm.ok,
        err |-> IF llm.ok THEN NoneStr
                ELSE IF llm.error = "" THEN "llm generation failed" ELSE llm.error,
        rows |-> <<[card_key |-> a.card_key, tab_key |-> a.tab_key, scope |-> a.scope,
                    lang |-> lang, data_digest |-> digest_for_inputs(input_obj),
                    input_snapshot_keys |->
                       <<[widget_key |-> snap.widget_key, scope |-> snap.scope,
                          snapshot_id |-> a.snapshot, fetched_at |-> snap.fetched_at]>>,
                    llm_prompt |-> <<"Generate dashboard Insight", json_dumps(input_obj, TRUE)>>,
                    llm_provider |-> llm.provider, llm_model |-> llm.model,
                    generated_by |-> "llm", job_run_id |-> job_run_id, tx |-> c]>>]

\* _gen_insight, lines 675-789: the (ok, err) pair returned and the rows
\* added to the session of c for the generation a.
_gen_insight(c, a, lang, extra_context, llm, job_run_id) ==
    LET snap == widget_snapshots[a.snapshot]
        input_keys == <<[widget_key |-> snap.widget_key, scope |-> snap.scope,
                         snapshot_id |-> a.snapshot, fetched_at |-> snap.fetched_at]>>
        input_obj == InputObj(a, lang, snap, extra_context)
        data_digest == digest_for_inputs(input_obj)
        user == <<"Generate dashboard Insight", json_dumps(input_obj, TRUE)>>
    IN IF ~llm.ok
       THEN [ok |-> FALSE,
             err |-> IF llm.error = "" THEN "llm generation failed" ELSE llm.error,
             rows |-> <<>>]
       ELSE [ok |-> TRUE, err |-> NoneStr,
             rows |-> <<[card_key |-> a.card_key, tab_key |-> a.tab_key,
                         scope |-> a.scope, lang |-> lang, data_digest |-> data_digest,
                         input_snapshot_keys |-> input_keys, llm_prompt |-> user,
                         llm_provider |-> llm.provider, llm_model |-> llm.model,
                         generated_by |-> "llm", job_run_id |-> job_run_id, tx |-> c]>>]

\* The rows of a table with the rows of a sequence appended under fresh ids.
Inserted(table, rows) ==
    LET ids == DOMAIN table
        top == IF ids = {} THEN 0 ELSE CHOOSE i \in ids : \A k \in ids : k <= i
    IN [i \in ids \cup (top + 1 .. top + Len(rows)) |->
          IF i \in ids THEN table[i] ELSE rows[i - top]]

RECURSIVE Flatten(_)
Flatten(seqs) == IF seqs = <<>> THEN <<>> ELSE Head(seqs) \o Flatten(Tail(seqs))

\* The body raising as soon as one generation has failed.
_summary_raises_on_any(llm_attempted, failed) == failed > 0

\* _run_generate_homepage_insights, lines 1099-1100: the condition of the raise.
_summary_raises(llm_attempted, failed) == llm_attempted > 0 /\ failed = llm_attempted

\* The cursor advancing without wrapping around.
_next_geo_idx_unwrapped(geo_idx, n) == geo_idx + 1

\* _run_generate_homepage_insights, line 852: the cursor stored after a
\* rotating run.
_next_geo_idx(geo_idx, n) == (geo_idx + 1) % n

\* The language of the run: str(params.get("lang") or "en").strip() or "en".
InsightLang(params) ==
    LET lang == Strip(StrOr(Get(params, "lang"), "en"))
    IN IF lang = "" THEN "en" ELSE lang

\* _run_generate_homepage_insights, lines 808-813 and 1092-1097: the llm rows
\* the session of c counts.
_llm_rows(c) ==
    {i \in Visible(widget_insights, c) : widget_insights[i].generated_by = "llm"}

\* The run rotating whatever its parameters.
_rotates_always(scope_filters, force_all) == TRUE

\* _run_generate_homepage_insights, lines 829-853: the run takes the
\* rotation branch, which alone assigns state.value, when it has neither a
\* scope filter nor force_all.
_rotates(scope_filters, force_all) == scope_filters = <<>> /\ ~force_all

\* The purge deleting nothing.
_purge_nothing(c) == {}

\* _run_generate_homepage_insights, lines 802-807: the rows the purge deletes
\* in the session of c, those whose generated_by is not llm.
_purge_non_llm(c) ==
    {i \in Visible(widget_insights, c) : widget_insights[i].generated_by # "llm"}

\* _run_generate_homepage_insights, lines 799-853: the parameters are read,
\* the cursor row of the language is loaded (inserted and flushed when there
\* is none) and the geographies of the run are chosen. No other run of the
\* job is in its body meanwhile (JobDefLockedBy), so the committed row is the
\* row the session reads. The purge of lines 802-807 deletes in the session
\* every row whose generated_by is not llm; before_count counts the llm rows.
_insights_choose_geos(c) ==
    LET params == th[c].params
        geo_list == _as_geo_list(Get(params, "geo_list"))
        scope_filters == _normalize_scope_list(Get(params, "scope"))
        cursor_key == <<"generate_homepage_insights", InsightLang(params)>>
        found == cursor_key \in DOMAIN widget_insight_job_state
        geo_idx == IF found THEN widget_insight_job_state[cursor_key].geo_idx ELSE 0
        force_all == _as_bool(Get(params, "force_all"), FALSE)
        n == Len(geo_list)
        geos == IF scope_filters # <<>>
                THEN SelectSeq(scope_filters, LAMBDA x : x # "global")
                ELSE IF force_all THEN geo_list
                ELSE <<geo_list[(geo_idx % n) + 1]>>
        cursor_write ==
            IF _rotates(scope_filters, force_all)
            THEN <<[key |-> cursor_key, geo_idx |-> _next_geo_idx(geo_idx, n),
                    insert |-> ~found]>>
            ELSE IF ~found THEN <<[key |-> cursor_key, geo_idx |-> 0, insert |-> TRUE]>>
            ELSE <<>>
    IN /\ th[c].pc = "body"
       /\ th[c].job_id = "generate_homepage_insights"
       /\ th' = [th EXCEPT ![c].pc = "generate", ![c].cursor_write = cursor_write,
                           ![c].purged = _purge_non_llm(c),
                           ![c].before_count = Cardinality(_llm_rows(c)),
                           ![c].geos_to_process = geos]
       /\ UNCHANGED <<envVars, insightVars, dbVars, lockVars, schedVars>>

\* _run_generate_homepage_insights, lines 855-1108: the snapshots are read,
\* the generations made and the summary returned or the error raised, in the
\* session of the run.
_run_generate_homepage_insights(c) ==
    LET params == th[c].params
        lang == InsightLang(params)
        force_regen == _as_bool(Get(params, "force_regen"), FALSE)
        card_filter == Strip(StrOr(Get(params, "card_key"), ""))
        tab == Get(params, "tab_key")
        tab_filter == Strip(StrOr(IF StrOr(tab, "") # "" THEN tab ELSE Get(params, "type"), ""))
        scope_filters == _normalize_scope_list(Get(params, "scope"))
        geos == th[c].geos_to_process
        want(card_key, tab_key, scope) ==
            /\ card_filter = "" \/ card_key = card_filter
            /\ tab_filter = "" \/ tab_key = tab_filter
            /\ scope_filters = <<>>
                  \/ \E i \in 1..Len(scope_filters) : scope_filters[i] = _canonical_scope(scope)
        latest(widget_key, scope) ==
            LET rows == Newest(widget_snapshots, c,
                               LAMBDA r : r.widget_key = widget_key /\ r.scope = scope,
                               LAMBDA r : r.fetched_at)
            IN IF rows = {} THEN {None} ELSE rows
    IN /\ th[c].pc = "generate"
       /\ \E trade \in latest("trade_corridors", "global"),
             disp \in latest("wealth_disposable_latest", "global") :
          \E plan \in {InsightPlan(trade, disp, geos, want)} :
          \E url \in {LET urls == Flatten([i \in 1..Len(plan) |->
                                            URLS(plan[i].card_key, plan[i].tab_key)])
                      IN IF urls = <<>> THEN "" ELSE Head(urls)} :
          \E cached \in {{i \in Newest(public_contexts, c, LAMBDA r : r.url = url,
                                        LAMBDA r : r.fetched_at) :
                             public_contexts[i].fetched_at > _now_utc - ContextTtl}} :
          \E llms \in [1..Len(plan) -> LLMResults],
             fetch_ok \in (IF url = "" \/ cached # {} THEN {TRUE} ELSE BOOLEAN) :
          \E fetched \in {IF url = "" \/ cached # {} THEN <<>>
                          ELSE <<[url |-> url, ok |-> fetch_ok,
                                  fetched_at |-> _now_utc, tx |-> c]>>} :
          \E blocks \in {IF fetched # <<>> THEN <<to_prompt_block(fetched[1])>>
                         ELSE IF cached # {}
                         THEN <<to_prompt_block(public_contexts[CHOOSE i \in cached : TRUE])>>
                         ELSE <<>>} :
             LET ctx(card_key, tab_key) ==
                     IF URLS(card_key, tab_key) = <<>> THEN <<>> ELSE blocks
                 src_at(a) ==
                     LET at == widget_snapshots[a.snapshot].source_updated_at
                     IN IF at = None THEN PyNone ELSE PyDatetime(at)
                 extra(a) ==
                     PyDict((IF a.scope = "global" THEN <<>>
                             ELSE << <<"geo", PyStr(a.scope)>> >>)
                            \o << <<"source_updated_at", src_at(a)>>,
                                  <<"public_contexts", PyList(ctx(a.card_key, a.tab_key))>>,
                                  <<"force_regen", PyBool(force_regen)>> >>)
             IN \E results \in {[i \in 1..Len(plan) |->
                                    _gen_insight(c, plan[i], lang, extra(plan[i]), llms[i],
                                                 th[c].run_id)]} :
                LET outcomes == [i \in 1..Len(plan) |->
                                   [card_key |-> plan[i].card_key, tab_key |-> plan[i].tab_key,
                                    scope |-> plan[i].scope, lang |-> lang,
                                    ok |-> results[i].ok, err |-> results[i].err]]
                    rows == Flatten([i \in 1..Len(plan) |-> results[i].rows])
                    llm_attempted == Len(plan)
                    failed == Len(SelectSeq(outcomes, LAMBDA o : ~o.ok))
                    after_count == Cardinality(_llm_rows(c)) + Len(rows)
                    saved == [th[c] EXCEPT !.pc = "finalize", !.llm = outcomes,
                                           !.before_count = 0]
                IN /\ widget_insights' = Inserted(widget_insights, rows)
                   /\ public_contexts' = Inserted(public_contexts, fetched)
                   /\ th' = [th EXCEPT ![c] =
                               IF _summary_raises(llm_attempted, failed)
                               THEN [saved EXCEPT
                                       !.status = "failed",
                                       !.error = "all LLM insight generations failed",
                                       !.message = "job failed"]
                               ELSE [saved EXCEPT
                                       !.status = "success",
                                       !.last_success_at = _now_utc,
                                       !.message =
                                          [text |-> "homepage insights saved",
                                           added |-> after_count - th[c].before_count,
                                           attempted |-> llm_attempted,
                                           failed |-> failed,
                                           purged_non_llm |-> Cardinality(th[c].purged),
                                           partial |-> failed > 0]]]
       /\ UNCHANGED <<envVars, dbVars, widget_insight_job_state, lockVars, schedVars>>

\* run_job_now without the except clause: the body's exception propagates.
runner_raises_uncaught(c, exc) ==
    /\ th[c].pc = "body"
    /\ job_runs' = RolledBack(job_runs, c)
    /\ widget_snapshots' = RolledBack(widget_snapshots, c)
    /\ th' = [th EXCEPT ![c].pc = "finally", ![c].exc = exc]
    /\ UNCHANGED <<envVars, insightVars, job_definitions, next_run_id, next_snapshot_id,
                   lockVars, schedVars>>

\* run_job_now, lines 1286-1289: the job body raises.
runner_raises(c, exc) ==
    /\ th[c].pc = "body"
    /\ th' = [th EXCEPT ![c].pc = "finalize", ![c].status = "failed",
                        ![c].error = exc, ![c].message = "job failed"]
    /\ UNCHANGED <<envVars, insightVars, dbVars, lockVars, schedVars>>

\* The duration in clock units instead of milliseconds.
DurationMs_in_ticks(started, finished) == finished - started

\* int((finished - started).total_seconds() * 1000), on a clock of half
\* milliseconds.
DurationMs(started, finished) == (finished - started) \div TicksPerMs

\* run_job_now, lines 1291-1297: the run row is finalised and the session
\* committed (run row, snapshots, the definition's timestamps).
run_job_now_finalize(c) ==
    LET j == th[c].job_id
        finished == _now_utc
        done == [job_runs EXCEPT ![th[c].run_id] =
                    [@ EXCEPT !.status = th[c].status, !.message = th[c].message,
                              !.error = th[c].error, !.finished_at = finished,
                              !.duration_ms = DurationMs(th[c].started, finished)]]
        gone == th[c].deleted
    IN /\ th[c].pc = "finalize"
       /\ job_runs' = Committed(Without(done, gone.job_runs), c)
       /\ widget_snapshots' =
            Committed(SetNull(Without(widget_snapshots, gone.widget_snapshots),
                              gone.job_runs), c)
       /\ job_definitions' =
            [job_definitions EXCEPT ![j] =
                [@ EXCEPT !.last_scheduled_at = th[c].started,
                          !.last_success_at = IF th[c].status = "success"
                                              THEN th[c].last_success_at ELSE @]]
       /\ widget_insights' = Committed(Without(widget_insights, th[c].purged), c)
       /\ public_contexts' = Committed(public_contexts, c)
       /\ widget_insight_job_state' =
            LET w == th[c].cursor_write
            IN IF w = <<>> THEN widget_insight_job_state
               ELSE [k \in (DOMAIN widget_insight_job_state) \cup {w[1].key} |->
                       IF k = w[1].key THEN [geo_idx |-> w[1].geo_idx]
                       ELSE widget_insight_job_state[k]]
       /\ th' = [th EXCEPT ![c].pc = "finally", ![c].deleted = NoDeletes,
                           ![c].cursor_write = <<>>]
       /\ UNCHANGED <<envVars, next_run_id, next_snapshot_id, lockVars, schedVars>>

\* The database refuses the commit of line 1297: the session rolls back and
\* the exception leaves run_job_now through its finally block.
commit_fails(c) ==
    /\ th[c].pc = "finalize"
    /\ job_runs' = RolledBack(job_runs, c)
    /\ widget_snapshots' = RolledBack(widget_snapshots, c)
    /\ widget_insights' = RolledBack(widget_insights, c)
    /\ public_contexts' = RolledBack(public_contexts, c)
    /\ th' = [th EXCEPT ![c].pc = "finally", ![c].exc = "OperationalError",
                        ![c].deleted = NoDeletes, ![c].cursor_write = <<>>]
    /\ UNCHANGED <<envVars, widget_insight_job_state, job_definitions, next_run_id, next_snapshot_id,
                   lockVars, schedVars>>

\* run_job_now releasing the lock on the normal path only.
run_job_now_finally_leaks(c) ==
    /\ th[c].pc = "finally"
    /\ locked' = IF th[c].exc # "" THEN locked
                 ELSE [l \in (DOMAIN locked) \ {th[c].lock} |-> locked[l]]
    /\ th' = [th EXCEPT ![c] =
                IF th[c].exc # "" THEN Raised(@, th[c].exc)
                ELSE Returned(@, [ok |-> th[c].status = "success",
                                  status |-> th[c].status, message |-> th[c].message,
                                  error |-> th[c].error, run_id |-> th[c].run_id])]
    /\ UNCHANGED <<envVars, insightVars, dbVars, _LOCKS, schedVars>>

\* run_job_now, lines 1298-1308: the lock is released, the result returned
\* (or the exception propagated).
run_job_now_finally(c) ==
    /\ th[c].pc = "finally"
    /\ locked' = [l \in (DOMAIN locked) \ {th[c].lock} |-> locked[l]]
    /\ th' = [th EXCEPT ![c] =
                IF th[c].exc # "" THEN Raised(@, th[c].exc)
                ELSE Returned(@, [ok |-> th[c].status = "success",
                                  status |-> th[c].status, message |-> th[c].message,
                                  error |-> th[c].error, run_id |-> th[c].run_id])]
    /\ UNCHANGED <<envVars, insightVars, dbVars, _LOCKS, schedVars>>

\* The caller takes the result (or the exception); the thread is free again.
Return(c) ==
    /\ th[c].pc \in {"done", "raised"}
    /\ th' = [th EXCEPT ![c] = IdleFrame]
    /\ UNCHANGED <<envVars, insightVars, dbVars, lockVars, schedVars>>

\* Time passes.
Tick ==
    /\ now < MaxNow
    /\ now' = now + 1
    /\ UNCHANGED <<job_table, JOBS_ENABLED, JOB_RETENTION_DAYS, run_budget, _CACHE, dbVars, insightVars, lockVars,
                   schedVars, th>>

\* ------------------------------------------------------------- scheduler

\* settings.JOB_WARMUP_ON_START
JOB_WARMUP_ON_START == TRUE

\* The five-field expressions and the zone names CronTrigger.from_crontab
\* accepts; it splits the expression on white space.
ValidCrontabs == {DEFAULT_CRON_EVERY_10_MIN, "0 4 * * *"}
ValidTimezones == {TZ, "UTC"}

\* CronTrigger.from_crontab(expr, timezone=tz) returns rather than raises.
from_crontab(expr, tz) == Strip(expr) \in ValidCrontabs /\ tz \in ValidTimezones

\* The ids of scheduler jobs: f"job:{job_id}" and f"warmup:{job_id}".
CronJobId(j) == <<"job", j>>
WarmupJobId(j) == <<"warmup", j>>

\* JobDefinition.job_id in ascending order.
JobIdOrder == <<"cleanup_snapshots", "generate_homepage_insights", "legacy_job", "trade_corridors", "wealth_disposable_latest">>

\* The keys of JOB_SPECS in declaration order.
JobSpecOrder == <<"generate_homepage_insights", "trade_corridors", "wealth_disposable_latest", "cleanup_snapshots">>

\* BackgroundScheduler(timezone=settings.TZ) after start().
NewScheduler == [running |-> TRUE, jobs |-> <<>>]

\* scheduler.add_job(..., id=id, replace_existing=True).  Nothing of a stopped
\* scheduler ever fires and nothing reads its job store, which is kept empty.
AddJob(sched, id, job) ==
    IF ~sched.running THEN sched
    ELSE [sched EXCEPT !.jobs = [i \in (DOMAIN sched.jobs) \cup {id} |->
                                   IF i = id THEN job ELSE sched.jobs[i]]]

\* The function leaves the with-block of _SCHED_LOCK and returns None.
LeaveSchedLock(c) ==
    /\ th' = [th EXCEPT ![c] = Returned(@, NoResult)]
    /\ _SCHED_LOCK' = NoThread

\* init_scheduler without the test of _SCHEDULER.
init_scheduler_again(c) ==
    /\ th[c].pc = "idle"
    /\ _SCHED_LOCK = NoThread
    /\ ~JOBS_ENABLED \/ Cardinality(DOMAIN schedulers) < MaxSched
    /\ th' = [th EXCEPT ![c] = [IdleFrame EXCEPT !.op = "init_scheduler", !.pc = "seed"]]
    /\ _SCHED_LOCK' = c
    /\ UNCHANGED <<envVars, insightVars, dbVars, lockVars, _SCHEDULER, schedulers>>

\* init_scheduler, lines 1313-1315: the lock is taken, a scheduler that exists
\* ends the call.
init_scheduler(c) ==
    /\ th[c].pc = "idle"
    /\ _SCHED_LOCK = NoThread
    /\ _SCHEDULER # None \/ ~JOBS_ENABLED \/ Cardinality(DOMAIN schedulers) < MaxSched
    /\ IF _SCHEDULER # None
       THEN /\ th' = [th EXCEPT ![c] = Returned([IdleFrame EXCEPT !.op = "init_scheduler"], NoResult)]
            /\ UNCHANGED _SCHED_LOCK
       ELSE /\ th' = [th EXCEPT ![c] = [IdleFrame EXCEPT !.op = "init_scheduler", !.pc = "seed"]]
            /\ _SCHED_LOCK' = c
    /\ UNCHANGED <<envVars, insightVars, dbVars, lockVars, _SCHEDULER, schedulers>>

\* init_scheduler arming the scheduler whatever the kill-switch says.
init_scheduler_start_always(c) ==
    LET sid == Cardinality(DOMAIN schedulers) + 1
    IN /\ th[c].pc = "after_seed"
       /\ schedulers' = [i \in (DOMAIN schedulers) \cup {sid} |->
                           IF i = sid THEN NewScheduler ELSE schedulers[i]]
       /\ _SCHEDULER' = sid
       /\ th' = [th EXCEPT ![c].pc = "reload"]
       /\ UNCHANGED <<envVars, insightVars, dbVars, lockVars, _SCHED_LOCK>>

\* init_scheduler, lines 1319-1325: nothing more with the kill-switch off,
\* else a scheduler is started and published.
init_scheduler_start(c) ==
    LET sid == Cardinality(DOMAIN schedulers) + 1
    IN /\ th[c].pc = "after_seed"
       /\ IF ~JOBS_ENABLED
          THEN /\ LeaveSchedLock(c)
               /\ UNCHANGED <<_SCHEDULER, schedulers>>
          ELSE /\ schedulers' = [i \in (DOMAIN schedulers) \cup {sid} |->
                                   IF i = sid THEN NewScheduler ELSE schedulers[i]]
               /\ _SCHEDULER' = sid
               /\ th' = [th EXCEPT ![c].pc = "reload"]
               /\ UNCHANGED _SCHED_LOCK
       /\ UNCHANGED <<envVars, insightVars, dbVars, lockVars>>

\* shutdown_scheduler, lines 1331-1335; shutdown(wait=False) stops the
\* scheduler and leaves the calls in flight alone.
shutdown_scheduler(c) ==
    /\ th[c].pc = "idle"
    /\ _SCHED_LOCK = NoThread
    /\ th' = [th EXCEPT ![c] = Returned([IdleFrame EXCEPT !.op = "shutdown_scheduler"], NoResult)]
    /\ IF _SCHEDULER = None
       THEN UNCHANGED <<_SCHEDULER, schedulers>>
       ELSE /\ schedulers' = [schedulers EXCEPT ![_SCHEDULER] = [running |-> FALSE, jobs |-> <<>>]]
            /\ _SCHEDULER' = None
    /\ UNCHANGED <<envVars, insightVars, dbVars, lockVars, _SCHED_LOCK>>

\* reload_scheduler_jobs returns: to init_scheduler (line 1326), to
\* update_job_definition (line 1453) or to a caller outside the module.
ReloadReturns(f) ==
    IF f.op = "init_scheduler"
    THEN [f EXCEPT !.pc = "warmup", !.scheduler = None, !.rows = <<>>]
    ELSE IF f.op = "update_job_definition"
    THEN Returned([f EXCEPT !.scheduler = None, !.rows = <<>>],
                  [NoResult EXCEPT !.ok = TRUE, !.message = "updated"])
    ELSE Returned([f EXCEPT !.scheduler = None, !.rows = <<>>], NoResult)

\* reload_scheduler_jobs, lines 1339-1341: the global is read once.
reload_scheduler_jobs(c) ==
    /\ th[c].pc = "reload"
    /\ th' = [th EXCEPT ![c] = IF _SCHEDULER = None THEN ReloadReturns(@)
                               ELSE [@ EXCEPT !.pc = "reload_remove", !.scheduler = _SCHEDULER]]
    /\ UNCHANGED <<envVars, insightVars, dbVars, lockVars, schedVars>>

\* reload_scheduler_jobs, line 1343: scheduler.remove_all_jobs().
reload_remove_all_jobs(c) ==
    /\ th[c].pc = "reload_remove"
    /\ schedulers' = [schedulers EXCEPT ![th[c].scheduler].jobs = <<>>]
    /\ th' = [th EXCEPT ![c].pc = "reload_query"]
    /\ UNCHANGED <<envVars, insightVars, dbVars, lockVars, _SCHEDULER, _SCHED_LOCK>>

\* reload_scheduler_jobs, lines 1345-1350: the definitions in job_id order.
reload_query(c) ==
    LET ids == SelectSeq(JobIdOrder, LAMBDA j : j \in DOMAIN job_definitions)
        rows == [k \in DOMAIN ids |->
                    [job_id |-> ids[k], enabled |-> job_definitions[ids[k]].enabled,
                     cron_expr |-> job_definitions[ids[k]].cron_expr,
                     timezone |-> job_definitions[ids[k]].timezone]]
    IN /\ th[c].pc = "reload_query"
       /\ th' = [th EXCEPT ![c] = IF rows = <<>> THEN ReloadReturns(@)
                                  ELSE [@ EXCEPT !.pc = "reload_add", !.rows = rows]]
       /\ UNCHANGED <<envVars, insightVars, dbVars, lockVars, schedVars>>

\* The job reload_scheduler_jobs adds for a row (lines 1360-1369).
CronJob(row) ==
    [trigger |-> "cron", cron_expr |-> row.cron_expr,
     timezone |-> IF row.timezone = "" THEN TZ ELSE row.timezone,
     args |-> <<row.job_id, PyNone, "scheduler">>]

\* reload_scheduler_jobs, lines 1352-1369: one turn of the loop over the rows.
reload_add_job(c) ==
    LET row == Head(th[c].rows)
        sid == th[c].scheduler
    IN /\ th[c].pc = "reload_add"
       /\ schedulers' =
            IF \/ ~row.enabled
               \/ ~from_crontab(row.cron_expr, IF row.timezone = "" THEN TZ ELSE row.timezone)
            THEN schedulers
            ELSE [schedulers EXCEPT ![sid] = AddJob(@, CronJobId(row.job_id), CronJob(row))]
       /\ th' = [th EXCEPT ![c] = IF Tail(th[c].rows) = <<>> THEN ReloadReturns(@)
                                  ELSE [@ EXCEPT !.rows = Tail(th[c].rows)]]
       /\ UNCHANGED <<envVars, insightVars, dbVars, lockVars, _SCHEDULER, _SCHED_LOCK>>

\* timedelta(seconds=n) in the units of the clock.
timedelta(seconds) == seconds * 1000 * TicksPerMs

\* _schedule_startup_warmup, lines 1381-1382: the jobs to warm up, in order.
warmup_jobs ==
    SelectSeq(JobSpecOrder,
              LAMBDA j : j \notin {"cleanup_snapshots", "generate_homepage_insights"})
        \o <<"generate_homepage_insights">>

\* _schedule_startup_warmup without the count of the snapshots.
_schedule_startup_warmup_always(c) ==
    /\ th[c].pc = "warmup"
    /\ IF _SCHEDULER = None \/ ~JOB_WARMUP_ON_START
       THEN LeaveSchedLock(c)
       ELSE /\ th' = [th EXCEPT ![c].pc = "warmup_add", ![c].scheduler = _SCHEDULER,
                                ![c].rows = warmup_jobs]
            /\ UNCHANGED _SCHED_LOCK
    /\ UNCHANGED <<envVars, insightVars, dbVars, lockVars, _SCHEDULER, schedulers>>

\* _schedule_startup_warmup, lines 1373-1382; the snapshot count is read in a
\* session of its own and sees committed rows.
_schedule_startup_warmup(c) ==
    LET has_any == Cardinality({i \in DOMAIN widget_snapshots : widget_snapshots[i].tx = NoThread})
    IN /\ th[c].pc = "warmup"
       /\ IF _SCHEDULER = None \/ ~JOB_WARMUP_ON_START \/ has_any # 0
          THEN LeaveSchedLock(c)
          ELSE /\ th' = [th EXCEPT ![c].pc = "warmup_add", ![c].scheduler = _SCHEDULER,
                                   ![c].rows = warmup_jobs]
               /\ UNCHANGED _SCHED_LOCK
       /\ UNCHANGED <<envVars, insightVars, dbVars, lockVars, _SCHEDULER, schedulers>>

\* _schedule_startup_warmup, lines 1384-1397: one turn of the loop; the k-th
\* job is due 2k seconds from now, the insight job no sooner than 90.
warmup_add_job(c) ==
    LET job_id == Head(th[c].rows)
        delay_seconds == 2 * (Len(warmup_jobs) - Len(th[c].rows) + 1)
        run_at == IF job_id = "generate_homepage_insights" /\ delay_seconds < 90
                  THEN 90 ELSE delay_seconds
        job == [trigger |-> "date", run_at |-> _now_utc + timedelta(run_at),
                args |-> <<job_id, PyNone, "startup">>]
    IN /\ th[c].pc = "warmup_add"
       /\ schedulers' = [schedulers EXCEPT ![th[c].scheduler] = AddJob(@, WarmupJobId(job_id), job)]
       /\ IF Tail(th[c].rows) = <<>>
          THEN LeaveSchedLock(c)
          ELSE /\ th' = [th EXCEPT ![c].rows = Tail(th[c].rows)]
               /\ UNCHANGED _SCHED_LOCK
       /\ UNCHANGED <<envVars, insightVars, dbVars, lockVars, _SCHEDULER>>

\* ------------------------------------------------------ definition update

\* update_job_definition with the row written before the cron expression and
\* the time zone are validated.
update_job_definition_persist_first(c, job_id, cron_expr, timezone_name, enabled, default_params) ==
    LET f == [IdleFrame EXCEPT !.op = "update_job_definition", !.job_id = job_id,
                               !.args = <<cron_expr, timezone_name, enabled, default_params>>]
        cron == Strip(cron_expr)
        tz == IF Strip(timezone_name) = "" THEN TZ ELSE Strip(timezone_name)
        failed(msg) == Returned(f, [NoResult EXCEPT !.message = msg])
    IN /\ th[c].pc = "idle"
       /\ IF job_id \notin DOMAIN job_definitions
          THEN th' = [th EXCEPT ![c] = failed("job not found")] /\ UNCHANGED job_definitions
          ELSE IF job_id \notin DOMAIN JOB_SPECS
          THEN th' = [th EXCEPT ![c] = failed("unknown job")] /\ UNCHANGED job_definitions
          ELSE IF ~from_crontab(cron, tz)
          THEN /\ th' = [th EXCEPT ![c] = failed("invalid cron/timezone")]
               /\ job_definitions' = [job_definitions EXCEPT ![job_id].cron_expr = cron,
                                                             ![job_id].timezone = tz]
          ELSE /\ th' = [th EXCEPT ![c] =
                           [f EXCEPT !.pc = "update_commit", !.cron_expr = cron,
                                     !.timezone_name = tz, !.enabled = enabled,
                                     !.default_params = normalize_params(job_id, default_params),
                                     !.loaded = <<job_definitions[job_id]>>]]
               /\ UNCHANGED job_definitions
       /\ UNCHANGED <<envVars, insightVars, job_runs, next_run_id, widget_snapshots, next_snapshot_id,
                      lockVars, schedVars>>

\* update_job_definition, lines 1432-1450: the row is loaded, the inputs are
\* checked and the new values are set on the loaded row.
update_job_definition(c, job_id, cron_expr, timezone_name, enabled, default_params) ==
    LET f == [IdleFrame EXCEPT !.op = "update_job_definition", !.job_id = job_id,
                               !.args = <<cron_expr, timezone_name, enabled, default_params>>]
        cron == Strip(cron_expr)
        tz == IF Strip(timezone_name) = "" THEN TZ ELSE Strip(timezone_name)
        failed(msg) == Returned(f, [NoResult EXCEPT !.message = msg])
    IN /\ th[c].pc = "idle"
       /\ th' = [th EXCEPT ![c] =
                   IF job_id \notin DOMAIN job_definitions THEN failed("job not found")
                   ELSE IF job_id \notin DOMAIN JOB_SPECS THEN failed("unknown job")
                   ELSE IF ~from_crontab(cron, tz) THEN failed("invalid cron/timezone")
                   ELSE [f EXCEPT !.pc = "update_commit", !.cron_expr = cron,
                                  !.timezone_name = tz, !.enabled = enabled,
                                  !.default_params = normalize_params(job_id, default_params),
                                  !.loaded = <<job_definitions[job_id]>>]]
       /\ UNCHANGED <<envVars, insightVars, dbVars, lockVars, schedVars>>

\* What the flush writes: the columns whose new value differs from the loaded
\* one; the other columns keep what the table holds.
Flushed(current, loaded, column, value) == IF value = loaded[column] THEN current[column] ELSE value

\* update_job_definition, line 1451: db.commit().
update_job_definition_commit(c) ==
    LET j == th[c].job_id
        cur == job_definitions[j]
        old == th[c].loaded[1]
    IN /\ th[c].pc = "update_commit"
       /\ JobDefLockedBy(j) = {}
       /\ job_definitions' =
            [job_definitions EXCEPT ![j] =
                [cur EXCEPT !.cron_expr = Flushed(cur, old, "cron_expr", th[c].cron_expr),
                            !.timezone = Flushed(cur, old, "timezone", th[c].timezone_name),
                            !.enabled = Flushed(cur, old, "enabled", th[c].enabled),
                            !.default_params = Flushed(cur, old, "default_params", th[c].default_params)]]
       /\ th' = [th EXCEPT ![c].pc = "reload", ![c].loaded = <<>>]
       /\ UNCHANGED <<envVars, insightVars, job_runs, next_run_id, widget_snapshots, next_snapshot_id,
                      lockVars, schedVars>>

\* -------------------------------------------------------- trigger firing

\* Calls of run_job_now a scheduler job has in flight (max_instances=1).
Instances(sid, id) ==
    {d \in Threads : th[d].via = <<sid, id>> /\ th[d].pc \notin {"idle", "done", "raised"}}

\* The jobs whose triggers come due in the checked behaviours.
FiredJobs == {"trade_corridors"}

\* A trigger of a running scheduler is due: a pool thread calls
\* run_job_now(*args); a date trigger is spent by its one run.
scheduler_fires(c) ==
    \E sid \in DOMAIN schedulers :
       \E id \in DOMAIN schedulers[sid].jobs :
          LET job == schedulers[sid].jobs[id]
          IN /\ schedulers[sid].running
             /\ job.args[1] \in FiredJobs
             /\ Instances(sid, id) = {}
             /\ run_job_now(c, job.args[1], EmptyDict, job.args[3], <<sid, id>>)
             /\ schedulers' =
                  IF job.trigger = "date"
                  THEN [schedulers EXCEPT ![sid].jobs =
                          [i \in (DOMAIN schedulers[sid].jobs) \ {id} |-> schedulers[sid].jobs[i]]]
                  ELSE schedulers
             /\ UNCHANGED <<_SCHEDULER, _SCHED_LOCK>>

\* ------------------------------------------------------------ the callers

\* The run requests of the HTTP handlers (app/web/routes.py): POST
\* /api/trade/refresh runs trade_corridors with force_wci as "api"; POST
\* /jobs/run runs the job id of the form, declared or not, with the parsed
\* overrides (None or {} read as the empty dict) as "manual".
Requests ==
    {<<"trade_corridors", [force_wci |-> PyBool(TRUE)], "api">>,
     <<"wealth_disposable_latest", EmptyDict, "manual">>,
     <<"no_such_job", EmptyDict, "manual">>}

Request_run(c) ==
    /\ \E r \in Requests : run_job_now(c, r[1], r[2], r[3], NoJob)
    /\ UNCHANGED schedVars

RunnerStep(c) ==
    \/ _get_lock_test(c)
    \/ _get_lock_store(c)
    \/ _get_lock_return(c)
    \/ run_job_now_acquire(c)
    \/ _seed_job_definitions(c)
    \/ _seed_job_definitions_commit(c)
    \/ run_job_now_open(c)
    \/ run_job_now_schedule(c)
    \/ \E ok \in BOOLEAN : runner_returns(c, ok)
    \/ \E e \in BodyErrors : runner_raises(c, e)
    \/ run_job_now_finalize(c)
    \/ run_job_now_finally(c)
    \/ Return(c)

DbFault(c) ==
    \/ seed_commit_fails(c)
    \/ commit_fails(c)

InitDb ==
    /\ job_definitions = <<>>
    /\ job_runs = <<>>
    /\ next_run_id = 1
    /\ widget_snapshots = <<>>
    /\ next_snapshot_id = 1

InitProcessWith(insights) ==
    /\ now = 0
    /\ _CACHE = <<>>
    /\ widget_insights = insights
    /\ widget_insight_job_state = <<>>
    /\ public_contexts = <<>>
    /\ _LOCKS = <<>>
    /\ locked = <<>>
    /\ _SCHEDULER = None
    /\ schedulers = <<>>
    /\ _SCHED_LOCK = NoThread
    /\ th = [c \in Threads |-> IdleFrame]

InitProcess == InitProcessWith(<<>>)

InitRunner ==
    /\ job_table = SnapshotJobs
    /\ JOBS_ENABLED \in BOOLEAN
    /\ JOB_RETENTION_DAYS = 30
    /\ run_budget = MaxRuns
    /\ InitDb
    /\ InitProcess

NextRunner ==
    \/ \E c \in Threads : Request_run(c)
    \/ \E c \in Threads : RunnerStep(c)
    \/ \E c \in Threads : DbFault(c)
    \/ Tick

SpecRunner == InitRunner /\ [][NextRunner]_vars

\* POST /jobs/update (app/web/routes.py): the form's job id, cron expression,
\* time zone, check box and parsed parameters.
Updates ==
    {<<"trade_corridors", " 0 4 * * * ", "UTC", FALSE, [force_wci |-> PyStr("yes")]>>,
     <<"trade_corridors", "0 4 * * *", "UTC", TRUE, [force_wci |-> PyStr("yes")]>>,
     <<"trade_corridors", "every day", "", TRUE, EmptyDict>>,
     <<"wealth_disposable_latest", "0 4 * * *", "Mars/Olympus", FALSE, EmptyDict>>,
     <<"legacy_job", "0 4 * * *", "", TRUE, EmptyDict>>,
     <<"no_such_job", "0 4 * * *", "", TRUE, EmptyDict>>}

\* reload_scheduler_jobs called through the package's interface.
Request_reload(c) ==
    /\ th[c].pc = "idle"
    /\ th' = [th EXCEPT ![c] = [IdleFrame EXCEPT !.op = "reload_scheduler_jobs", !.pc = "reload"]]
    /\ UNCHANGED <<envVars, insightVars, dbVars, lockVars, schedVars>>

Request_update(c) ==
    \E u \in Updates : update_job_definition(c, u[1], u[2], u[3], u[4], u[5])

\* The run requests issued next to the scheduler's operations.
SchedRequests == {<<"trade_corridors", [force_wci |-> PyBool(TRUE)], "api">>}

Request_run_sched(c) ==
    /\ \E r \in SchedRequests : run_job_now(c, r[1], r[2], r[3], NoJob)
    /\ UNCHANGED schedVars

SchedulerStep(c) ==
    \/ init_scheduler_start(c)
    \/ reload_scheduler_jobs(c)
    \/ reload_remove_all_jobs(c)
    \/ reload_query(c)
    \/ reload_add_job(c)
    \/ _schedule_startup_warmup(c)
    \/ warmup_add_job(c)
    \/ update_job_definition_commit(c)

\* A database an earlier release has left: a definition whose id is declared
\* no more and whose schedule is no crontab expression.
LegacyDefinitions ==
    [j \in {"legacy_job"} |->
        [cron_expr |-> "@hourly", timezone |-> "UTC", enabled |-> TRUE,
         default_params |-> EmptyDict, last_scheduled_at |-> None, last_success_at |-> None]]

InitSched ==
    /\ job_table = SnapshotJobs
    /\ JOBS_ENABLED \in BOOLEAN
    /\ JOB_RETENTION_DAYS = 30
    /\ run_budget = MaxSchedRuns
    /\ job_definitions \in {<<>>, LegacyDefinitions}
    /\ job_runs = <<>>
    /\ next_run_id = 1
    /\ widget_snapshots = <<>>
    /\ next_snapshot_id = 1
    /\ InitProcess

NextSched ==
    \/ \E c \in Threads : init_scheduler(c)
    \/ \E c \in Threads : shutdown_scheduler(c)
    \/ \E c \in Threads : Request_update(c)
    \/ \E c \in Threads : Request_reload(c)
    \/ \E c \in Threads : Request_run_sched(c)
    \/ \E c \in Threads : scheduler_fires(c)
    \/ \E c \in Threads : SchedulerStep(c)
    \/ \E c \in Threads : RunnerStep(c)

SpecSched == InitSched /\ [][NextSched]_vars

\* The process as app/main.py runs it: the lifespan calls init_scheduler once
\* before a request is served, and shutdown_scheduler when serving ends.
Serving ==
    /\ _SCHEDULER # None
    /\ \A c \in Threads : th[c].op # "init_scheduler"

lifespan_startup(c) ==
    /\ schedulers = <<>>
    /\ \A d \in Threads : th[d].pc = "idle"
    /\ init_scheduler(c)

lifespan_shutdown(c) ==
    /\ Serving
    /\ shutdown_scheduler(c)

Serve_update(c) ==
    /\ Serving
    /\ Request_update(c)

Serve_run(c) ==
    /\ Serving
    /\ Request_run_sched(c)

InitServing ==
    /\ job_table = SnapshotJobs
    /\ JOBS_ENABLED = TRUE
    /\ JOB_RETENTION_DAYS = 30
    /\ run_budget = MaxSchedRuns
    /\ job_definitions \in {<<>>, LegacyDefinitions}
    /\ job_runs = <<>>
    /\ next_run_id = 1
    /\ widget_snapshots = <<>>
    /\ next_snapshot_id = 1
    /\ InitProcess

NextServing ==
    \/ \E c \in Threads : lifespan_startup(c)
    \/ \E c \in Threads : lifespan_shutdown(c)
    \/ \E c \in Threads : Serve_update(c)
    \/ \E c \in Threads : Serve_run(c)
    \/ \E c \in Threads : scheduler_fires(c)
    \/ \E c \in Threads : SchedulerStep(c)
    \/ \E c \in Threads : RunnerStep(c)

SpecServing == InitServing /\ [][NextServing]_vars

\* The served process with its threads scheduled: the timer thread of the
\* scheduler submits a trigger that is due again and again to its pool, and a
\* function that has been called goes on to its end.
SpecWarmup ==
    /\ InitServing
    /\ [][NextServing]_vars
    /\ SF_vars(\E c \in Threads : scheduler_fires(c))
    /\ WF_vars(\E c \in Threads : SchedulerStep(c) \/ RunnerStep(c))

\* ------------------------------------------------------------ claims C1-C6

\* Between lock.acquire and lock.release of run_job_now.
CriticalPcs ==
    {"seed", "seed_commit", "open", "schedule", "body", "generate", "finalize", "finally"}

Critical(c) == th[c].op = "run_job_now" /\ th[c].pc \in CriticalPcs

\* C1: for every job id, at most one run_job_now call is between lock
\* acquisition and lock release at any instant, and at most one run row of
\* the job is in status running.
C1_AtMostOneRun ==
    /\ \A c1, c2 \in Threads :
          (c1 # c2 /\ Critical(c1) /\ Critical(c2)) => th[c1].job_id # th[c2].job_id
    /\ \A i1, i2 \in DOMAIN job_runs :
          (i1 # i2 /\ job_runs[i1].status = "running" /\ job_runs[i2].status = "running")
             => job_runs[i1].job_id # job_runs[i2].job_id

\* C2 (state part): a run row is running only while the call that created it
\* is between the insert and the commit; a row that is no longer running is
\* success or failed, committed, finished no earlier than it started, with
\* duration_ms the whole milliseconds between the two.
C2_Rows ==
    \A i \in DOMAIN job_runs :
        LET r == job_runs[i]
        IN /\ r.status \in {"running", "success", "failed"}
           /\ r.status = "running" =>
                 /\ r.tx \in Threads
                 /\ th[r.tx].run_id = i
                 /\ th[r.tx].pc \in {"schedule", "body", "generate", "finalize"}
                 /\ r.finished_at = None
           /\ r.status # "running" =>
                 /\ r.tx = NoThread
                 /\ r.finished_at >= r.started_at
                 /\ r.duration_ms * TicksPerMs <= r.finished_at - r.started_at
                 /\ r.finished_at - r.started_at < (r.duration_ms + 1) * TicksPerMs

\* C2 (step part): a row that is success or failed is never written again.
C2_Once ==
    \A i \in DOMAIN job_runs :
        job_runs[i].status # "running" => (i \in DOMAIN job_runs' /\ job_runs'[i] = job_runs[i])

C3_Step ==
    \A c \in Threads :
        (th[c].pc = "acquire" /\ th[c].lock \in DOMAIN locked /\ th'[c] # th[c]) =>
            /\ th'[c].pc = "done"
            /\ th'[c].result = [ok |-> FALSE, status |-> "skipped",
                                message |-> "job is already running",
                                error |-> NoneStr, run_id |-> None]
            /\ \A d \in Threads \ {c} : th'[d] = th[d]
            /\ UNCHANGED <<dbVars, lockVars, schedVars>>

C3_SkipIsNoOp == [][C3_Step]_vars

C3_Witness ==
    \E c \in Threads :
        /\ th[c].pc = "done"
        /\ th[c].result.message = "job is already running"
        /\ \E d \in Threads : Critical(d) /\ th[d].job_id = th[c].job_id

\* C4: a lock is held only by a call that is between acquire and release, so
\* every path out of run_job_now (return or exception) has released it, and
\* when no run of a job is in progress the lock of the job is free.
C4_LockReleased ==
    /\ \A l \in DOMAIN locked :
          /\ Critical(locked[l])
          /\ th[locked[l]].lock = l
    /\ \A j \in JobIds :
          (~ \E c \in Threads : Critical(c) /\ th[c].job_id = j) =>
              /\ j \in DOMAIN _LOCKS => _LOCKS[j] \notin DOMAIN locked
              /\ \A c \in Threads :
                    (th[c].pc = "acquire" /\ th[c].job_id = j) => th[c].lock \notin DOMAIN locked

\* A call whose commit failed after the job body has ended with an exception
\* and its lock is free.
C4_Witness ==
    \E c \in Threads :
        /\ th[c].pc = "raised"
        /\ th[c].exc = "OperationalError"
        /\ th[c].run_id # None
        /\ th[c].lock \notin DOMAIN locked

\* C5 (state part): no exception of a job body leaves run_job_now; a call
\* that returns after its body raised reports ok=false, failed and the
\* exception's message, as does its run row; a call whose body returned
\* reports ok=true, success and the body's message.
C5_Result ==
    \A c \in Threads :
        /\ th[c].pc = "raised" => th[c].exc \notin BodyErrors
        /\ (th[c].pc = "done" /\ th[c].op = "run_job_now" /\ th[c].run_id # None) =>
              LET res == th[c].result
                  row == job_runs[th[c].run_id]
              IN /\ res.run_id = th[c].run_id
                 /\ res.status \in {"success", "failed"}
                 /\ res.ok = (res.status = "success")
                 /\ row.status = res.status
                 /\ row.error = res.error
                 /\ row.message = res.message
                 /\ res.status = "failed" => res.error \in BodyErrors
                 /\ res.status = "success" =>
                       res.error = NoneStr /\ res.message = RunnerMessage(th[c].job_id)

\* C5 (step part): the commit of a run sets last_success_at of the job's
\* definition to the time the body returned, and leaves it as it was when the
\* body raised.
C5_Step ==
    \A c \in Threads :
        (th[c].pc = "finalize" /\ th'[c].pc = "finally" /\ th'[c].exc = "") =>
            LET j == th[c].job_id
            IN IF th[c].status = "success"
               THEN /\ job_definitions'[j].last_success_at = th[c].last_success_at
                    /\ th[c].last_success_at >= th[c].started
               ELSE job_definitions'[j].last_success_at = job_definitions[j].last_success_at

\* C5: a job body's exception is absorbed into the result and the run row
\* (failed, error = its message, last_success_at unchanged); a body's return
\* gives success, message = its return value, last_success_at updated.
C5_BodyOutcome == [](C5_Result) /\ [][C5_Step]_vars

\* A run failed after an earlier run of the same job succeeded.
C5_Witness ==
    \E c \in Threads :
        /\ th[c].pc = "done"
        /\ th[c].result.status = "failed"
        /\ th[c].result.error \in BodyErrors
        /\ job_definitions[th[c].job_id].last_success_at # None

\* C6 (state part): a call for an undeclared job id has returned failed /
\* 'unknown job' whether or not jobs are enabled; with jobs disabled a call
\* for a declared job has returned skipped, and no lock, definition, run or
\* snapshot exists.
C6_State ==
    /\ \A c \in Threads :
          th[c].op = "run_job_now" =>
             /\ th[c].job_id \notin JobIds =>
                   /\ th[c].pc = "done"
                   /\ th[c].result = [NoResult EXCEPT !.status = "failed", !.error = "unknown job"]
             /\ (th[c].job_id \in JobIds /\ ~JOBS_ENABLED) =>
                   /\ th[c].pc = "done"
                   /\ th[c].result.ok = FALSE
                   /\ th[c].result.status = "skipped"
                   /\ th[c].result.run_id = None
    /\ ~JOBS_ENABLED =>
          /\ _LOCKS = <<>> /\ locked = <<>>
          /\ job_runs = <<>> /\ widget_snapshots = <<>>

\* C6 (step part): the step that answers such a call changes no table and no
\* lock.
C6_Step ==
    \A c \in Threads :
        (th[c].pc = "idle" /\ th'[c].pc = "done") => UNCHANGED <<dbVars, lockVars, schedVars>>

\* C6: run_job_now checks unknown-job, then kill-switch, then lock; the two
\* early answers create no lock, reconcile nothing, write no row and run no
\* body.
C6_GuardOrder == [](C6_State) /\ [][C6_Step]_vars

C6_Witness ==
    /\ ~JOBS_ENABLED
    /\ \E c \in Threads :
          th[c].pc = "done" /\ th[c].job_id = "no_such_job" /\ th[c].result.error = "unknown job"
    /\ \E c \in Threads :
          th[c].pc = "done" /\ th[c].job_id \in JobIds /\ th[c].result.status = "skipped"

\* ----------------------------------------------------------- claims C7-C10

\* C7: while JOBS_ENABLED is off, whatever init_scheduler, run_job_now,
\* update_job_definition, reload_scheduler_jobs and shutdown_scheduler calls
\* have been made, no scheduler is published or running, no cron or warm-up
\* trigger is armed, no call of run_job_now is past its guards, no job_runs
\* and no widget_snapshots row exists; and when init_scheduler has returned
\* every declared job has a definition row.
C7_KillSwitch ==
    ~JOBS_ENABLED =>
        /\ _SCHEDULER = None
        /\ \A sid \in DOMAIN schedulers :
              ~schedulers[sid].running /\ schedulers[sid].jobs = <<>>
        /\ \A c \in Threads :
              th[c].op = "run_job_now" => th[c].pc = "done" /\ th[c].run_id = None
        /\ job_runs = <<>>
        /\ widget_snapshots = <<>>
        /\ \A c \in Threads :
              (th[c].op = "init_scheduler" /\ th[c].pc = "done")
                 => JobIds \subseteq DOMAIN job_definitions

\* The switch is off, init_scheduler has returned after a definition was
\* updated, and a run request has been turned away.
C7_Witness ==
    /\ ~JOBS_ENABLED
    /\ "trade_corridors" \in DOMAIN job_definitions
    /\ job_definitions["trade_corridors"].cron_expr = "0 4 * * *"
    /\ \E c, d \in Threads :
          /\ th[c].op = "init_scheduler" /\ th[c].pc = "done"
          /\ th[d].op = "run_job_now" /\ th[d].pc = "done"
          /\ th[d].result.status = "skipped"

C8_Columns(row) == <<row.cron_expr, row.timezone, row.enabled, row.default_params>>

C8_Reconcile ==
    \A c \in Threads :
       (th[c].pc = "seed_commit" /\ th'[c].pc # "seed_commit") =>
          /\ \A j \in DOMAIN job_definitions :
                j \in DOMAIN job_definitions' /\ job_definitions'[j] = job_definitions[j]
          /\ th'[c].pc \in {"open", "after_seed"} =>
                /\ DOMAIN job_definitions' = (DOMAIN job_definitions) \cup JobIds
                /\ \A j \in (DOMAIN job_definitions') \ (DOMAIN job_definitions) :
                      /\ job_definitions'[j].enabled
                      /\ job_definitions'[j].cron_expr = JOB_SPECS[j].cron_expr
                      /\ job_definitions'[j].timezone = JOB_SPECS[j].timezone
                      /\ job_definitions'[j].default_params = JOB_SPECS[j].default_params

C8_OnlyUpdateEdits ==
    \A j \in DOMAIN job_definitions :
       /\ j \in DOMAIN job_definitions'
       /\ C8_Columns(job_definitions'[j]) # C8_Columns(job_definitions[j]) =>
             \E c \in Threads :
                /\ th[c].op = "update_job_definition" /\ th[c].job_id = j
                /\ th[c].pc = "update_commit" /\ th'[c].pc = "reload"

\* C8: a step of _seed_job_definitions leaves every existing definition row as
\* it is and, when it commits, has added exactly the declared jobs that had no
\* row, enabled and with the declared cron expression, time zone and default
\* parameters (so with every row present it changes nothing); no row is ever
\* deleted, and the cron expression, time zone, enabled flag and default
\* parameters of an existing row change only by the commit of an
\* update_job_definition call for that job.
C8_SeedInsertsOnly == [][C8_Reconcile /\ C8_OnlyUpdateEdits]_vars

\* init_scheduler has just reconciled the registry again, after a scheduled
\* run that took its parameters from the updated definition had finished: the
\* row still has the updated values.
C8_Witness ==
    /\ \E c \in Threads : th[c].op = "init_scheduler" /\ th[c].pc = "after_seed"
    /\ \E r \in DOMAIN job_runs :
          /\ job_runs[r].triggered_by = "scheduler"
          /\ job_runs[r].finished_at # None
          /\ job_runs[r].params = [force_wci |-> PyBool(TRUE)]
    /\ "trade_corridors" \in DOMAIN job_definitions
    /\ C8_Columns(job_definitions["trade_corridors"])
          = <<"0 4 * * *", "UTC", TRUE, [force_wci |-> PyBool(TRUE)]>>

C9_Reject ==
    \A c \in Threads :
       (th[c].pc = "idle" /\ th'[c].op = "update_job_definition") =>
          LET j == th'[c].job_id
              cron_expr == th'[c].args[1]
              timezone_name == th'[c].args[2]
              zone == IF Strip(timezone_name) = "" THEN TZ ELSE Strip(timezone_name)
              refused == \/ j \notin DOMAIN job_definitions
                         \/ j \notin DOMAIN JOB_SPECS
                         \/ ~from_crontab(Strip(cron_expr), zone)
          IN refused =>
                /\ th'[c].pc = "done"
                /\ ~th'[c].result.ok
                /\ th'[c].result.message
                      \in {"job not found", "unknown job", "invalid cron/timezone"}
                /\ UNCHANGED <<dbVars, schedVars>>

\* C9: a call of update_job_definition whose job id has no definition row, or
\* is not a declared job, or whose cron expression and time zone build no
\* trigger, returns (False, message) in the step it is made: no table and
\* nothing of the scheduler changes, and no reload is begun.
C9_RejectedUpdate == [][C9_Reject]_vars

\* On a running scheduler with triggers armed, one update has been refused for
\* its cron expression and another for its undeclared job id.
C9_Witness ==
    /\ _SCHEDULER # None
    /\ schedulers[_SCHEDULER].jobs # <<>>
    /\ \E c, d \in Threads :
          /\ th[c].op = "update_job_definition" /\ th[c].pc = "done"
          /\ th[c].result.message = "invalid cron/timezone"
          /\ th[d].op = "update_job_definition" /\ th[d].pc = "done"
          /\ th[d].result.message = "unknown job"

\* The cron jobs a reload arms for the persisted definitions.
C10_Expected ==
    LET armed == {j \in DOMAIN job_definitions :
                     /\ job_definitions[j].enabled
                     /\ from_crontab(job_definitions[j].cron_expr,
                                     IF job_definitions[j].timezone = "" THEN TZ
                                     ELSE job_definitions[j].timezone)}
    IN [id \in {CronJobId(j) : j \in armed} |->
          CronJob([job_id |-> id[2], cron_expr |-> job_definitions[id[2]].cron_expr,
                   timezone |-> job_definitions[id[2]].timezone])]

\* The cron jobs of a scheduler.
C10_Armed(sid) ==
    [id \in {i \in DOMAIN schedulers[sid].jobs : i[1] = "job"} |-> schedulers[sid].jobs[id]]

\* No call of init_scheduler, update_job_definition or reload_scheduler_jobs
\* is in progress.
C10_Quiet ==
    \A c \in Threads :
       th[c].op \in {"init_scheduler", "update_job_definition", "reload_scheduler_jobs"}
          => th[c].pc \in {"done", "raised"}

C10_Reloaded ==
    (_SCHEDULER # None /\ C10_Quiet) => C10_Armed(_SCHEDULER) = C10_Expected

C10_UpdateReloads ==
    \A c \in Threads :
       (th[c].op = "update_job_definition" /\ th[c].pc # "done"
          /\ th'[c].pc = "done" /\ th'[c].result.ok)
             => th[c].pc \in {"reload", "reload_query", "reload_add"}

\* C10: a successful update_job_definition returns only out of
\* reload_scheduler_jobs, and once the reloads have completed the cron jobs
\* of the running scheduler are exactly one per definition that is enabled
\* and whose persisted cron expression and time zone parse, built from the
\* persisted values and calling run_job_now(job_id, None, "scheduler").
C10_ReloadArmsPersisted == [](C10_Reloaded) /\ [][C10_UpdateReloads]_vars

\* -------------------------------------------------------- snapshot store

\* The rows of a (widget_key, scope) partition a reading session sees.
Partition(widget_key, scope) ==
    {i \in DOMAIN widget_snapshots :
        /\ widget_snapshots[i].tx = NoThread
        /\ widget_snapshots[i].widget_key = widget_key
        /\ widget_snapshots[i].scope = scope}

\* get_latest_snapshot ordering by fetched_at ascending.
get_latest_snapshot_oldest(c, widget_key, scope) ==
    LET part == Partition(widget_key, scope)
        first == {i \in part : \A k \in part :
                     widget_snapshots[i].fetched_at <= widget_snapshots[k].fetched_at}
    IN /\ th[c].pc = "idle"
       /\ \E row \in (IF part = {} THEN {None} ELSE first) :
             th' = [th EXCEPT ![c] =
                      Returned([IdleFrame EXCEPT !.op = "get_latest_snapshot",
                                                 !.args = <<widget_key, scope>>,
                                                 !.snapshot = row], NoResult)]
       /\ UNCHANGED <<envVars, insightVars, dbVars, lockVars, schedVars>>

\* get_latest_snapshot, lines 1456-1462: the first row of the partition in
\* descending fetched_at order, any of them when several share the instant.
get_latest_snapshot(c, widget_key, scope) ==
    LET part == Partition(widget_key, scope)
        first == {i \in part : \A k \in part :
                     widget_snapshots[i].fetched_at >= widget_snapshots[k].fetched_at}
    IN /\ th[c].pc = "idle"
       /\ \E row \in (IF part = {} THEN {None} ELSE first) :
             th' = [th EXCEPT ![c] =
                      Returned([IdleFrame EXCEPT !.op = "get_latest_snapshot",
                                                 !.args = <<widget_key, scope>>,
                                                 !.snapshot = row], NoResult)]
       /\ UNCHANGED <<envVars, insightVars, dbVars, lockVars, schedVars>>

\* The partitions the pages and the insight job read (app/web/routes.py
\* 103-106, runtime.py 940 and 1000).
Reads ==
    {<<"trade_corridors", "global">>, <<"trade_corridors", "Global">>,
     <<"wealth_disposable_latest", "global">>}

Request_latest(c) == \E r \in Reads : get_latest_snapshot(c, r[1], r[2])

NextStore ==
    \/ \E c \in Threads : Request_run(c)
    \/ \E c \in Threads : RunnerStep(c)
    \/ \E c \in Threads : Request_latest(c)
    \/ Tick

SpecStore == InitRunner /\ [][NextStore]_vars

\* -------------------------------------------------------------- retention

\* POST /jobs/run for cleanup_snapshots with the parsed overrides of the form
\* ("manual"), and the cron trigger, which passes none ("scheduler").
CleanupRequests ==
    {<<EmptyDict, "scheduler">>,
     <<[keep_days |-> PyInt(0)], "manual">>,
     <<[keep_days |-> PyInt(400)], "manual">>,
     <<[keep_days |-> PyStr(" 40 ")], "manual">>}

Request_cleanup(c) ==
    /\ \E r \in CleanupRequests : run_job_now(c, "cleanup_snapshots", r[1], r[2], NoJob)
    /\ UNCHANGED schedVars

Request_refresh(c) ==
    /\ run_job_now(c, "trade_corridors", [force_wci |-> PyBool(TRUE)], "api", NoJob)
    /\ UNCHANGED schedVars

\* The ages, in clock units at start, of the snapshots the store already holds.
Ages == {1, 5 * TicksPerDay, 30 * TicksPerDay, 40 * TicksPerDay, 366 * TicksPerDay}

\* A finished run of job j that recorded its snapshot when the clock read at,
\* one unit after it started.
PastRun(j, at) ==
    [job_id |-> j, status |-> "success", triggered_by |-> "scheduler",
     params |-> normalize_params(j, EmptyDict), message |-> RunnerMessage(j),
     error |-> NoneStr, started_at |-> at - 1, finished_at |-> at,
     duration_ms |-> DurationMs(at - 1, at), tx |-> NoThread]

PastSnapshot(j, at, run_id) ==
    [widget_key |-> j, scope |-> "global", is_stale |-> FALSE, fetched_at |-> at,
     source_updated_at |-> None, source_updated_at_note |-> SourceNote(j),
     job_run_id |-> run_id, tx |-> NoThread]

\* A database in which every declared job is seeded and two past runs have
\* left one snapshot each, in one partition or in two.
InitCleanup ==
    /\ job_table = SnapshotJobs \cup {"cleanup_snapshots"}
    /\ JOBS_ENABLED = TRUE
    /\ JOB_RETENTION_DAYS = 30
    /\ run_budget = 2 + MaxCleanupRuns
    /\ \E a1, a2 \in Ages, j2 \in SnapshotJobs :
          /\ a1 >= a2
          /\ job_runs = <<PastRun("trade_corridors", 0 - a1), PastRun(j2, 0 - a2)>>
          /\ widget_snapshots = <<PastSnapshot("trade_corridors", 0 - a1, 1),
                                  PastSnapshot(j2, 0 - a2, 2)>>
          /\ job_definitions =
                [j \in JobIds |->
                   LET at == IF j = j2 THEN 0 - a2
                             ELSE IF j = "trade_corridors" THEN 0 - a1 ELSE None
                   IN [NewJobDefinition(JOB_SPECS[j]) EXCEPT
                          !.last_scheduled_at = IF at = None THEN None ELSE at - 1,
                          !.last_success_at = at]]
    /\ next_run_id = 3
    /\ next_snapshot_id = 3
    /\ InitProcess

NextCleanup ==
    \/ \E c \in Threads : Request_cleanup(c)
    \/ \E c \in Threads : Request_refresh(c)
    \/ \E c \in Threads : RunnerStep(c)
    \/ \E c \in Threads : _run_cleanup_snapshots(c)
    \/ \E c \in Threads : commit_fails(c)
    \/ \E c \in Threads : Request_latest(c)
    \/ Tick

SpecCleanup == InitCleanup /\ [][NextCleanup]_vars

\* --------------------------------------------------------------- insights

\* Runs of generate_homepage_insights started per behaviour.
MaxInsightRuns == 2

\* The cron trigger of generate_homepage_insights (no overrides) and POST
\* /jobs/run with the parsed overrides of the form.
InsightRequests ==
    {<<EmptyDict, "scheduler">>,
     <<[geo_list |-> PyList(<<"India", " mexico ">>)], "manual">>,
     <<[scope |-> PyStr("India"), force_regen |-> PyStr(" YES ")], "manual">>,
     <<[force_all |-> PyBool(TRUE), geo_list |-> PyStr("India, mexico")], "manual">>,
     <<[card_key |-> PyStr("finance")], "manual">>}

Request_insights(c) ==
    /\ \E r \in InsightRequests :
          run_job_now(c, "generate_homepage_insights", r[1], r[2], NoJob)
    /\ UNCHANGED schedVars

\* The steps of run_job_now around the body of the insights job.
InsightStep(c) ==
    \/ _get_lock_test(c)
    \/ _get_lock_store(c)
    \/ _get_lock_return(c)
    \/ run_job_now_acquire(c)
    \/ _seed_job_definitions(c)
    \/ _seed_job_definitions_commit(c)
    \/ run_job_now_open(c)
    \/ run_job_now_schedule(c)
    \/ _insights_choose_geos(c)
    \/ _run_generate_homepage_insights(c)
    \/ run_job_now_finalize(c)
    \/ run_job_now_finally(c)
    \/ Return(c)

\* models.py, lines 146-178: a widget_insights row written without a
\* generated_by, which the column defaults to job, with the column defaults
\* for its digest, its prompt and its provenance.
LegacyInsight ==
    [card_key |-> "trade_flow", tab_key |-> "corridors", scope |-> "global", lang |-> "en",
     data_digest |-> <<>>, input_snapshot_keys |-> <<>>, llm_prompt |-> <<>>,
     llm_provider |-> "", llm_model |-> "", generated_by |-> "job",
     job_run_id |-> None, tx |-> NoThread]

\* A database in which every declared job is seeded and the snapshot jobs
\* have run once each, or not yet, and in which a row of another producer is
\* left in widget_insights, or none.
InitInsights ==
    /\ job_table = SnapshotJobs \cup {"generate_homepage_insights"}
    /\ JOBS_ENABLED = TRUE
    /\ JOB_RETENTION_DAYS = 30
    /\ \E done \in {<<>>, <<"trade_corridors", "wealth_disposable_latest">>} :
          /\ job_runs = [i \in 1..Len(done) |-> PastRun(done[i], 0 - i)]
          /\ widget_snapshots = [i \in 1..Len(done) |-> PastSnapshot(done[i], 0 - i, i)]
          /\ next_run_id = Len(done) + 1
          /\ next_snapshot_id = Len(done) + 1
          /\ run_budget = Len(done) + MaxInsightRuns
          /\ job_definitions =
                [j \in JobIds |->
                   IF \E i \in 1..Len(done) : done[i] = j
                   THEN LET i == CHOOSE i \in 1..Len(done) : done[i] = j
                        IN [NewJobDefinition(JOB_SPECS[j]) EXCEPT
                               !.last_scheduled_at = 0 - i - 1, !.last_success_at = 0 - i]
                   ELSE NewJobDefinition(JOB_SPECS[j])]
    /\ \E insights \in {<<>>, <<LegacyInsight>>} : InitProcessWith(insights)

NextInsights ==
    \/ \E c \in Threads : Request_insights(c)
    \/ \E c \in Threads : InsightStep(c)
    \/ \E c \in Threads : commit_fails(c)

SpecInsights == InitInsights /\ [][NextInsights]_vars

\* ---------------------------------------------------------------------------
\* Trade export/import. Runs of trade_exim_5y and of wealth_disposable_latest
\* over a database seeded or not, with the answers of the fetchers drawn per
\* run.

\* Largest number of job_runs rows in this specification.
MaxEximRuns == 1

\* The runs requested: the example of a single geography with an end year, a
\* comma-separated list with a repeated and an unknown name, the refresh of
\* web/routes.py line 430 over the persisted list, and the global job.
EximRequests ==
    {<<"trade_exim_5y",
       [geo_list |-> PyList(<<"India">>), end_year |-> PyInt(2024)], "manual">>,
     <<"trade_exim_5y",
       [geo_list |-> PyStr("India, mexico"), end_year |-> PyInt(1950)], "manual">>,
     <<"trade_exim_5y", [force |-> PyBool(TRUE)], "api">>,
     <<"wealth_disposable_latest", [force |-> PyBool(TRUE)], "api">>}

Request_exim(c) ==
    /\ \E r \in EximRequests : run_job_now(c, r[1], r[2], r[3], NoJob)
    /\ UNCHANGED schedVars

\* The steps of run_job_now around the bodies of the two jobs.
EximStep(c) ==
    \/ _get_lock_test(c)
    \/ _get_lock_store(c)
    \/ _get_lock_return(c)
    \/ run_job_now_acquire(c)
    \/ _seed_job_definitions(c)
    \/ _seed_job_definitions_commit(c)
    \/ run_job_now_open(c)
    \/ run_job_now_schedule(c)
    \/ \E ok \in BOOLEAN : runner_returns(c, ok)
    \/ _run_trade_exim(c)
    \/ run_job_now_finalize(c)
    \/ run_job_now_finally(c)
    \/ Return(c)

\* A database in which /jobs/update has saved parameters for trade_exim_5y:
\* what update_job_definition stores for {"geo_list": "Mexico", "years": 10}.
EximDefinitions ==
    [j \in {"trade_exim_5y"} |->
        [NewJobDefinition(JOB_SPECS[j]) EXCEPT
           !.default_params = [geo_list |-> PyList(<<"Mexico">>), years |-> PyInt(10),
                               end_year |-> PyInt(year(0) - 1),
                               force |-> PyBool(FALSE)]]]

InitExim ==
    /\ job_table = {"trade_exim_5y", "wealth_disposable_latest"}
    /\ JOBS_ENABLED = TRUE
    /\ JOB_RETENTION_DAYS = 30
    /\ run_budget = MaxEximRuns
    /\ job_definitions \in {<<>>, EximDefinitions}
    /\ job_runs = <<>>
    /\ next_run_id = 1
    /\ widget_snapshots = <<>>
    /\ next_snapshot_id = 1
    /\ InitProcess

NextExim ==
    \/ \E c \in Threads : Request_exim(c)
    \/ \E c \in Threads : EximStep(c)
    \/ \E c \in Threads : commit_fails(c)

SpecExim == InitExim /\ [][NextExim]_vars

\* ---------------------------------------------------------------------------
\* Calendar years. Runs of trade_exim_5y that name no end_year, next to saves
\* of its definition through /jobs/update, while the year turns.

MaxYearRuns == 1

\* The saves: default_params without end_year, and with end_year null.
YearUpdates ==
    {<<"trade_exim_5y", "0 4 * * *", "", TRUE, EmptyDict>>,
     <<"trade_exim_5y", "0 4 * * *", "", TRUE, [end_year |-> PyNone]>>}

Request_update_year(c) ==
    \E u \in YearUpdates : update_job_definition(c, u[1], u[2], u[3], u[4], u[5])

\* The runs: those of the cron trigger, which overrides no parameter.
YearRequests == {<<"trade_exim_5y", EmptyDict, "scheduler">>}

Request_year(c) ==
    /\ \E r \in YearRequests : run_job_now(c, r[1], r[2], r[3], NoJob)
    /\ UNCHANGED schedVars

\* The steps of run_job_now around the body of trade_exim_5y, and those of
\* update_job_definition in a process without a scheduler.
YearStep(c) ==
    \/ _get_lock_test(c)
    \/ _get_lock_store(c)
    \/ _get_lock_return(c)
    \/ run_job_now_acquire(c)
    \/ _seed_job_definitions(c)
    \/ _seed_job_definitions_commit(c)
    \/ run_job_now_open(c)
    \/ run_job_now_schedule(c)
    \/ _run_trade_exim(c)
    \/ run_job_now_finalize(c)
    \/ run_job_now_finally(c)
    \/ update_job_definition_commit(c)
    \/ reload_scheduler_jobs(c)
    \/ Return(c)

InitYears ==
    /\ job_table = {"trade_exim_5y"}
    /\ JOBS_ENABLED = TRUE
    /\ JOB_RETENTION_DAYS = 30
    /\ run_budget = MaxYearRuns
    /\ job_definitions \in {<<>>, [j \in {"trade_exim_5y"} |-> NewJobDefinition(JOB_SPECS[j])]}
    /\ job_runs = <<>>
    /\ next_run_id = 1
    /\ widget_snapshots = <<>>
    /\ next_snapshot_id = 1
    /\ InitProcess

NextYears ==
    \/ \E c \in Threads : Request_update_year(c)
    \/ \E c \in Threads : Request_year(c)
    \/ \E c \in Threads : YearStep(c)
    \/ Tick

SpecYears == InitYears /\ [][NextYears]_vars

\* ---------------------------------------------------------------------------
\* The World Bank cache of web/worldbank.py. Calls of fetch_wdi_indicator for
\* two countries with a short and the default time to live, while upstream
\* answers or fails and time passes.

WdiCountries == {"WLD", "IND"}

\* ttl_seconds: half a day and the default of 24 hours.
Ttls == {1, TicksPerDay}

\* The series upstream answers with, as fetch_wdi_indicator extracts them.
WdiSeries == {<<>>, <<[period |-> "2024", value |-> 1]>>}

\* str(e) of the exceptions urlopen and json.loads raise.
WdiErrors == {"timed out"}

\* line 46: f"wdi:{country}:{indicator}:{date}"
WdiKey(country, indicator, date) == <<"wdi", country, indicator, date>>

\* {**payload, "cached": flag}
WithCached(payload, flag) == ("cached" :> flag) @@ payload

\* _get_cached without the comparison of line 22 with the clock.
_get_cached_stale(key) ==
    IF key \notin DOMAIN _CACHE THEN <<>> ELSE <<_CACHE[key].value>>

\* _get_cached, lines 20-24: <<>> is None.
_get_cached(key) ==
    IF key \notin DOMAIN _CACHE \/ now >= _CACHE[key].expires_at THEN <<>>
    ELSE <<_CACHE[key].value>>

\* _set_cached, lines 27-28
_set_cached(key, value, ttl_seconds) ==
    [k \in (DOMAIN _CACHE) \cup {key} |->
        IF k = key THEN [value |-> value, expires_at |-> now + ttl_seconds] ELSE _CACHE[k]]

\* fetch_wdi_indicator, lines 46-49: a payload is a dict with keys and so is
\* true in "if cached".
fetch_wdi_indicator(c, country, indicator, date, ttl_seconds, force) ==
    LET key == WdiKey(country, indicator, date)
        f == [IdleFrame EXCEPT !.op = "fetch_wdi_indicator",
                               !.args = <<country, indicator, date, ttl_seconds, force>>]
        cached == IF force THEN <<>> ELSE _get_cached(key)
    IN /\ th[c].pc = "idle"
       /\ th' = [th EXCEPT ![c] =
                   IF cached # <<>>
                   THEN [f EXCEPT !.pc = "done", !.fetched = <<WithCached(cached[1], TRUE)>>]
                   ELSE [f EXCEPT !.pc = "urlopen"]]
       /\ UNCHANGED <<envVars, insightVars, dbVars, lockVars, schedVars>>

\* fetch_wdi_indicator, lines 59-99: upstream answers with a series, or the
\* request or the parsing raises; either payload is stored and returned.
urlopen_returns(c, ok, series, error) ==
    LET a == th[c].args
        key == WdiKey(a[1], a[2], a[3])
        payload == IF ok
                   THEN [ok |-> TRUE, country |-> a[1], indicator |-> a[2], date |-> a[3],
                         series |-> series, error |-> NoneStr]
                   ELSE [ok |-> FALSE, country |-> a[1], indicator |-> a[2], date |-> a[3],
                         series |-> <<>>, error |-> error]
    IN /\ th[c].pc = "urlopen"
       /\ _CACHE' = _set_cached(key, payload, a[4])
       /\ th' = [th EXCEPT ![c].pc = "done", ![c].fetched = <<WithCached(payload, FALSE)>>]
       /\ UNCHANGED <<job_table, JOBS_ENABLED, JOB_RETENTION_DAYS, now, run_budget, insightVars, dbVars,
                      lockVars, schedVars>>

Request_fetch(c) ==
    \E country \in WdiCountries, ttl_seconds \in Ttls, force \in BOOLEAN :
        fetch_wdi_indicator(c, country, "NE.EXP.GNFS.CD", "2021:2025", ttl_seconds, force)

Upstream(c) ==
    \/ \E series \in WdiSeries : urlopen_returns(c, TRUE, series, NoneStr)
    \/ \E error \in WdiErrors : urlopen_returns(c, FALSE, <<>>, error)

InitWdi ==
    /\ job_table = {}
    /\ JOBS_ENABLED = TRUE
    /\ JOB_RETENTION_DAYS = 30
    /\ run_budget = 0
    /\ job_definitions = <<>>
    /\ job_runs = <<>>
    /\ next_run_id = 1
    /\ widget_snapshots = <<>>
    /\ next_snapshot_id = 1
    /\ InitProcess

NextWdi ==
    \/ \E c \in Threads : Request_fetch(c)
    \/ \E c \in Threads : Upstream(c)
    \/ \E c \in Threads : Return(c)
    \/ Tick

SpecWdi == InitWdi /\ [][NextWdi]_vars

\* ---------------------------------------------------------------------------
\* Job bodies that raise. Runs of trade_exim_5y whose loop raises after some
\* snapshots (the runs that return are those of the trade export/import
\* specification), and rotating runs of generate_homepage_insights whose
\* generations may all fail.

\* Runs started per behaviour.
MaxFailingRuns == 2

\* The body raising with the session's rows discarded.
_run_trade_exim_raises_discarding(c) ==
    LET geo_list == SelectSeq(th[c].params.geo_list.l, LAMBDA g : g \in DOMAIN GEO_TO_WDI)
    IN /\ th[c].pc = "body"
       /\ th[c].job_id = "trade_exim_5y"
       /\ \E k \in 0..(Len(geo_list) - 1), ok \in BOOLEAN, exc \in BodyErrors :
             /\ th' = [th EXCEPT ![c].pc = "finalize", ![c].status = "failed",
                                 ![c].error = exc, ![c].message = "job failed",
                                 ![c].payloads = [i \in 1..k |-> [ok |-> ok, series |-> <<>>]]]
       /\ UNCHANGED <<envVars, insightVars, dbVars, lockVars, schedVars>>

\* _run_trade_exim, lines 313-351, and run_job_now, lines 1286-1289: the
\* loop has recorded the snapshots of the first k geographies when the fetch
\* of the next one raises; run_job_now catches the exception and the rows
\* stay in the session.
_run_trade_exim_raises(c) ==
    LET geo_list == SelectSeq(th[c].params.geo_list.l, LAMBDA g : g \in DOMAIN GEO_TO_WDI)
    IN /\ th[c].pc = "body"
       /\ th[c].job_id = "trade_exim_5y"
       /\ \E k \in 0..(Len(geo_list) - 1), ok \in BOOLEAN, exc \in BodyErrors :
             LET src == _infer_annual_source_updated_at(latest_period(<<>>))
                 rows == [i \in 1..k |->
                            WidgetSnapshot(c, "trade_exim_5y", geo_list[i], ~ok,
                                           th[c].run_id, src.at, src.note)]
             IN /\ widget_snapshots' =
                     [i \in (DOMAIN widget_snapshots)
                               \cup (next_snapshot_id .. next_snapshot_id + k - 1) |->
                        IF i \in DOMAIN widget_snapshots THEN widget_snapshots[i]
                        ELSE rows[i - next_snapshot_id + 1]]
                /\ next_snapshot_id' = next_snapshot_id + k
                /\ th' = [th EXCEPT ![c].pc = "finalize", ![c].status = "failed",
                                    ![c].error = exc, ![c].message = "job failed",
                                    ![c].payloads = [i \in 1..k |-> [ok |-> ok, series |-> <<>>]]]
       /\ UNCHANGED <<envVars, insightVars, job_definitions, job_runs, next_run_id,
                      lockVars, schedVars>>

\* POST /jobs/run for trade_exim_5y over two geographies and the cron trigger
\* of generate_homepage_insights.
FailingRequests ==
    {<<"trade_exim_5y", [geo_list |-> PyStr("India, mexico")], "manual">>,
     <<"generate_homepage_insights", EmptyDict, "scheduler">>}

Request_failing(c) ==
    /\ \E r \in FailingRequests : run_job_now(c, r[1], r[2], r[3], NoJob)
    /\ UNCHANGED schedVars

FailingStep(c) ==
    \/ _get_lock_test(c)
    \/ _get_lock_store(c)
    \/ _get_lock_return(c)
    \/ run_job_now_acquire(c)
    \/ _seed_job_definitions(c)
    \/ _seed_job_definitions_commit(c)
    \/ run_job_now_open(c)
    \/ run_job_now_schedule(c)
    \/ _run_trade_exim_raises(c)
    \/ _insights_choose_geos(c)
    \/ _run_generate_homepage_insights(c)
    \/ run_job_now_finalize(c)
    \/ run_job_now_finally(c)
    \/ Return(c)

\* A database in which the snapshot jobs have run once each and no insight
\* has been generated.
InitFailing ==
    /\ job_table = SnapshotJobs \cup {"trade_exim_5y", "generate_homepage_insights"}
    /\ JOBS_ENABLED = TRUE
    /\ JOB_RETENTION_DAYS = 30
    /\ \E done \in {<<"trade_corridors", "wealth_disposable_latest">>} :
          /\ job_runs = [i \in 1..Len(done) |-> PastRun(done[i], 0 - i)]
          /\ widget_snapshots = [i \in 1..Len(done) |-> PastSnapshot(done[i], 0 - i, i)]
          /\ next_run_id = Len(done) + 1
          /\ next_snapshot_id = Len(done) + 1
          /\ run_budget = Len(done) + MaxFailingRuns
          /\ job_definitions = [j \in JobIds |-> NewJobDefinition(JOB_SPECS[j])]
    /\ InitProcess

NextFailing ==
    \/ \E c \in Threads : Request_failing(c)
    \/ \E c \in Threads : FailingStep(c)
    \/ \E c \in Threads : commit_fails(c)

SpecFailing == InitFailing /\ [][NextFailing]_vars

\* ---------------------------------------------------------------------------
\* Snapshot reads per widget key. Runs of trade_exim_5y over a database that
\* earlier runs have left snapshots in, next to the reads of the pages.

\* get_latest_snapshots_by_key keeping the last row of every scope.
get_latest_snapshots_by_key_oldest(c, widget_key) ==
    LET rows == {i \in DOMAIN widget_snapshots :
                    /\ widget_snapshots[i].tx = NoThread
                    /\ widget_snapshots[i].widget_key = widget_key}
        scopes == {widget_snapshots[i].scope : i \in rows}
        first(s) == {i \in rows :
                       /\ widget_snapshots[i].scope = s
                       /\ \A k \in rows :
                             widget_snapshots[k].scope = s
                                => widget_snapshots[i].fetched_at <= widget_snapshots[k].fetched_at}
    IN /\ th[c].pc = "idle"
       /\ \E out \in {f \in [scopes -> rows] : \A s \in scopes : f[s] \in first(s)} :
             th' = [th EXCEPT ![c] =
                      Returned([IdleFrame EXCEPT !.op = "get_latest_snapshots_by_key",
                                                 !.args = <<widget_key>>,
                                                 !.by_scope = out], NoResult)]
       /\ UNCHANGED <<envVars, insightVars, dbVars, lockVars, schedVars>>

\* get_latest_snapshots_by_key, lines 1465-1476: the rows of the widget key
\* are ordered by scope ascending and fetched_at descending (rows equal in
\* both in any order) and the loop keeps the first row of every scope.
get_latest_snapshots_by_key(c, widget_key) ==
    LET rows == {i \in DOMAIN widget_snapshots :
                    /\ widget_snapshots[i].tx = NoThread
                    /\ widget_snapshots[i].widget_key = widget_key}
        scopes == {widget_snapshots[i].scope : i \in rows}
        first(s) == {i \in rows :
                       /\ widget_snapshots[i].scope = s
                       /\ \A k \in rows :
                             widget_snapshots[k].scope = s
                                => widget_snapshots[i].fetched_at >= widget_snapshots[k].fetched_at}
    IN /\ th[c].pc = "idle"
       /\ \E out \in {f \in [scopes -> rows] : \A s \in scopes : f[s] \in first(s)} :
             th' = [th EXCEPT ![c] =
                      Returned([IdleFrame EXCEPT !.op = "get_latest_snapshots_by_key",
                                                 !.args = <<widget_key>>,
                                                 !.by_scope = out], NoResult)]
       /\ UNCHANGED <<envVars, insightVars, dbVars, lockVars, schedVars>>

\* A snapshot an earlier run of trade_exim_5y left for a geography; the run
\* row has since been deleted (ON DELETE SET NULL).
PastExim(scope, at) == [PastSnapshot("trade_exim_5y", at, None) EXCEPT !.scope = scope]

\* The snapshots the database starts with: none, one partition with two
\* rows, two partitions, and a partition whose two rows share the instant.
PastEximSnapshots ==
    {<<>>,
     <<PastExim("India", 0 - 2), PastExim("India", 0 - 1)>>,
     <<PastExim("India", 0 - 1), PastExim("India", 0 - 2), PastExim("Mexico", 0 - 1)>>,
     <<PastExim("Mexico", 0 - 1), PastExim("Mexico", 0 - 1)>>}

\* The runs requested next to the reads.
ReadRunRequests ==
    {<<"trade_exim_5y", [geo_list |-> PyStr("India, mexico")], "manual">>,
     <<"trade_exim_5y", [geo_list |-> PyList(<<"India">>)], "api">>}

Request_read_run(c) ==
    /\ \E r \in ReadRunRequests : run_job_now(c, r[1], r[2], r[3], NoJob)
    /\ UNCHANGED schedVars

\* web/routes.py lines 104 and 570 (the map of trade_exim_5y) and line 441
\* (the snapshot of one geography).
Request_read(c) ==
    \/ get_latest_snapshots_by_key(c, "trade_exim_5y")
    \/ \E geo \in {"India", "Mexico"} : get_latest_snapshot(c, "trade_exim_5y", geo)

ReadStep(c) ==
    \/ _get_lock_test(c)
    \/ _get_lock_store(c)
    \/ _get_lock_return(c)
    \/ run_job_now_acquire(c)
    \/ _seed_job_definitions(c)
    \/ _seed_job_definitions_commit(c)
    \/ run_job_now_open(c)
    \/ run_job_now_schedule(c)
    \/ _run_trade_exim(c)
    \/ run_job_now_finalize(c)
    \/ run_job_now_finally(c)
    \/ Return(c)

InitReads ==
    /\ job_table = {"trade_exim_5y"}
    /\ JOBS_ENABLED = TRUE
    /\ JOB_RETENTION_DAYS = 30
    /\ run_budget = MaxEximRuns
    /\ job_definitions = <<>>
    /\ job_runs = <<>>
    /\ next_run_id = 1
    /\ widget_snapshots \in PastEximSnapshots
    /\ next_snapshot_id = Len(widget_snapshots) + 1
    /\ InitProcess

NextReads ==
    \/ \E c \in Threads : Request_read_run(c)
    \/ \E c \in Threads : ReadStep(c)
    \/ \E c \in Threads : Request_read(c)

SpecReads == InitReads /\ [][NextReads]_vars

\* ---------------------------------------------------------- claims C11-C20

\* ----------------------------------------------- the digest of inputs

\* The payloads of the snapshots digested: JSON objects whose keys were
\* inserted in either order.
DigestPayloads ==
    UNION {{PyDict(<< <<"ok", ok>>, <<"value", value>> >>),
            PyDict(<< <<"value", value>>, <<"ok", ok>> >>)} :
              ok \in {PyBool(TRUE), PyBool(FALSE)},
              value \in {PyInt(1), PyStr("1"), PyNone}}

\* The input objects digested: for each payload an object with its keys
\* inserted in the order of _gen_insight and one with the order reversed, and
\* objects over two snapshots in either order.
DigestInputs ==
    UNION {{PyDict(<< <<"scope", PyStr(scope)>>,
                      <<"snapshots", PyList(<<PyDict(<< <<"payload", payload>> >>)>>)>>,
                      <<"source_updated_at", at>> >>),
            PyDict(<< <<"source_updated_at", at>>,
                      <<"snapshots", PyList(<<PyDict(<< <<"payload", payload>> >>)>>)>>,
                      <<"scope", PyStr(scope)>> >>)} :
              scope \in {"global"}, payload \in DigestPayloads,
              at \in {PyNone, PyDatetime(20241231)}}
    \cup {PyDict(<< <<"scope", PyStr("global")>>,
                    <<"snapshots", PyList(<<PyDict(<< <<"payload", p[1]>> >>),
                                            PyDict(<< <<"payload", p[2]>> >>)>>)>>,
                    <<"source_updated_at", PyNone>> >>) :
            p \in {PyDict(<< <<"ok", PyBool(TRUE)>>, <<"value", PyInt(1)>> >>),
                   PyDict(<< <<"value", PyNone>>, <<"ok", PyBool(TRUE)>> >>)}
                  \X {PyDict(<< <<"ok", PyBool(TRUE)>>, <<"value", PyInt(1)>> >>),
                      PyDict(<< <<"value", PyNone>>, <<"ok", PyBool(TRUE)>> >>)}}

\* A caller of digest_for_inputs returns with the digest of its argument.
digest_for_inputs_returns(c) ==
    /\ th[c].pc = "call"
    /\ th[c].op = "digest_for_inputs"
    /\ th' = [th EXCEPT ![c] = Returned(th[c], digest_for_inputs(th[c].args[1]))]
    /\ UNCHANGED <<envVars, insightVars, dbVars, lockVars, schedVars>>

InitDigest ==
    /\ job_table = {}
    /\ JOBS_ENABLED = TRUE
    /\ JOB_RETENTION_DAYS = 30
    /\ run_budget = 0
    /\ InitDb
    /\ now = 0
    /\ _CACHE = <<>>
    /\ widget_insights = <<>>
    /\ widget_insight_job_state = <<>>
    /\ public_contexts = <<>>
    /\ _LOCKS = <<>>
    /\ locked = <<>>
    /\ _SCHEDULER = None
    /\ schedulers = <<>>
    /\ _SCHED_LOCK = NoThread
    /\ th \in [Threads -> {[IdleFrame EXCEPT !.pc = "call", !.op = "digest_for_inputs",
                                              !.args = <<obj>>] : obj \in DigestInputs}]

NextDigest == \E c \in Threads : digest_for_inputs_returns(c)

SpecDigest == InitDigest /\ [][NextDigest]_vars

\* ------------------------------------------------ parameter normalizers

\* The values a raw parameter map carries for a numeric key: JSON numbers,
\* texts, a bool, a list, null.
RawNumbers ==
    {PyNone, PyInt(0 - 5), PyInt(7), PyInt(999), PyInt(1900), PyInt(2024), PyInt(2030),
     PyFloat(79), PyFloat(70), PyStr(" 40 "), PyStr("abc"), PyStr("3.5"), PyBool(TRUE),
     PyList(<<>>)}

\* The values a raw parameter map carries for geo_list: texts with one name
\* or several, lists of names, values of another type, null.
RawGeoLists ==
    {PyNone, PyStr("Mars"), PyStr("India"), PyStr("INDIA"), PyStr(""), PyStr("India, mexico"),
     PyStr("Mars, India"), PyStr("INDIA,India"), PyList(<<>>), PyList(<<"Mars">>),
     PyList(<<"hong kong", "Mars", "Hong Kong", "India">>), PyList(<<"Singapore", "Global">>),
     PyInt(5), PyBool(TRUE), PyDict(<< <<"geo", PyStr("India")>> >>)}

\* The raw parameter maps normalized: per job the numeric keys of its
\* normalizer, each present or missing.
RawParams ==
    [job_id : {"trade_exim_5y"},
     raw : UNION {[keys -> RawNumbers] : keys \in SUBSET {"years", "end_year"}}]
    \cup [job_id : {"wealth_age_structure_latest"},
          raw : UNION {[keys -> RawNumbers] : keys \in SUBSET {"lookback_years"}}]
    \cup [job_id : {"cleanup_snapshots"},
          raw : UNION {[keys -> RawNumbers] : keys \in SUBSET {"keep_days"}}]
    \cup [job_id : {"trade_exim_5y", "wealth_age_structure_latest"},
          raw : UNION {[keys -> RawGeoLists] : keys \in SUBSET {"geo_list"}}]

\* A caller of spec.normalize_params returns with the normalized parameters.
normalize_params_returns(c) ==
    /\ th[c].pc = "call"
    /\ th[c].op = "normalize_params"
    /\ th' = [th EXCEPT ![c] =
                Returned([th[c] EXCEPT !.params = normalize_params(th[c].job_id,
                                                                   th[c].params_override)],
                         NoResult)]
    /\ UNCHANGED <<envVars, insightVars, dbVars, lockVars, schedVars>>

InitParams ==
    /\ job_table = {"trade_exim_5y", "wealth_age_structure_latest", "cleanup_snapshots"}
    /\ JOBS_ENABLED = TRUE
    /\ JOB_RETENTION_DAYS = 30
    /\ run_budget = 0
    /\ InitDb
    /\ now = 0
    /\ _CACHE = <<>>
    /\ widget_insights = <<>>
    /\ widget_insight_job_state = <<>>
    /\ public_contexts = <<>>
    /\ _LOCKS = <<>>
    /\ locked = <<>>
    /\ _SCHEDULER = None
    /\ schedulers = <<>>
    /\ _SCHED_LOCK = NoThread
    /\ \E call \in RawParams :
          th = [c \in Threads |->
                  IF c = "t1"
                  THEN [IdleFrame EXCEPT !.pc = "call", !.op = "normalize_params",
                                         !.job_id = call.job_id,
                                         !.params_override = call.raw]
                  ELSE IdleFrame]

NextParams == \E c \in Threads : normalize_params_returns(c)

SpecParams == InitParams /\ [][NextParams]_vars

\* ---------------------------------------------------------------------------
\* Normalizers applied again. Each job's normalizer is applied to raw maps
\* over its own keys and keys it does not know, under the configured retention
\* of the installation, and what it returned is kept while time passes.

\* The values a raw parameter map carries for a flag.
RawBools ==
    {PyNone, PyBool(TRUE), PyBool(FALSE), PyInt(0), PyInt(1), PyStr(" YES "), PyStr("Off"),
     PyStr("abc"), PyList(<<>>)}

\* The values a raw parameter map carries for card_key, tab_key and type.
RawTexts ==
    {PyNone, PyStr(""), PyStr("   "), PyStr("wealth"), PyStr("wci"), PyStr("exim"),
     PyStr("Mars"), PyBool(TRUE), PyList(<<>>)}

RawLangs == {PyNone, PyStr(""), PyStr("EN"), PyStr("zh")}

RawScopes ==
    {PyNone, PyStr(""), PyStr("Global"), PyStr("India"), PyStr("Mars"),
     PyList(<<"Global", "global", "Mars", " India">>), PyList(<<>>)}

RawValues(key) ==
    IF key \in {"years", "end_year", "lookback_years", "keep_days"} THEN RawNumbers
    ELSE IF key = "geo_list" THEN RawGeoLists
    ELSE IF key = "scope" THEN RawScopes
    ELSE IF key = "lang" THEN RawLangs
    ELSE IF key \in {"card_key", "tab_key", "type"} THEN RawTexts
    ELSE RawBools

\* The keys the raw maps of a job carry: those its normalizer reads, and one
\* it does not.
RawKeys(j) ==
    {"unknown"} \cup
    (IF j = "trade_corridors" THEN {"force_wci"}
     ELSE IF j = "cleanup_snapshots" THEN {"keep_days"}
     ELSE IF j = "generate_homepage_insights"
     THEN {"lang", "geo_list", "scope", "card_key", "tab_key", "type", "force_regen", "force_all"}
     ELSE IF j = "trade_exim_5y" THEN {"geo_list", "years", "end_year", "force"}
     ELSE IF j = "wealth_age_structure_latest"
     THEN {"geo_list", "end_year", "lookback_years", "force"}
     ELSE {"force"})

NormalizedJobs ==
    {"trade_corridors", "cleanup_snapshots", "generate_homepage_insights", "trade_exim_5y",
     "wealth_age_structure_latest", "wealth_disposable_latest"}

\* The raw maps: empty, one key, one key next to the unknown one, and tab_key
\* next to type.
RawObjects(j) ==
    {EmptyDict}
    \cup UNION {[{key} -> RawValues(key)] : key \in RawKeys(j)}
    \cup UNION {[{key, "unknown"} -> RawValues(key)] : key \in RawKeys(j)}
    \cup (IF j = "generate_homepage_insights" THEN [{"tab_key", "type"} -> RawTexts] ELSE {})

\* JOB_RETENTION_DAYS as shipped, and an installation that keeps its rows
\* longer than a year.
RetentionSettings == {30, 500}

InitNormal ==
    /\ job_table = NormalizedJobs
    /\ JOBS_ENABLED = TRUE
    /\ JOB_RETENTION_DAYS \in RetentionSettings
    /\ run_budget = 0
    /\ InitDb
    /\ now = 0
    /\ _CACHE = <<>>
    /\ widget_insights = <<>>
    /\ widget_insight_job_state = <<>>
    /\ public_contexts = <<>>
    /\ _LOCKS = <<>>
    /\ locked = <<>>
    /\ _SCHEDULER = None
    /\ schedulers = <<>>
    /\ _SCHED_LOCK = NoThread
    /\ \E j \in NormalizedJobs : \E raw \in RawObjects(j) :
          th = [c \in Threads |->
                  IF c = "t1"
                  THEN [IdleFrame EXCEPT !.pc = "call", !.op = "normalize_params",
                                         !.job_id = j, !.params_override = raw]
                  ELSE IdleFrame]

NextNormal ==
    \/ \E c \in Threads : normalize_params_returns(c)
    \/ Tick

SpecNormal == InitNormal /\ [][NextNormal]_vars

C11_NoInterrupt ==
    \A d \in Threads :
       (th'[d].op = "update_job_definition" /\ th'[d] # th[d]) =>
          /\ \A c \in Threads \ {d} : th'[c] = th[c]
          /\ UNCHANGED <<job_runs, next_run_id, widget_snapshots, next_snapshot_id, lockVars>>

C11_Disabled ==
    \A c, d \in Threads :
       (/\ th[d].op = "update_job_definition" /\ th[d].pc # "done"
        /\ th'[d].pc = "done" /\ th'[d].result.ok /\ ~th[d].enabled
        /\ Critical(c) /\ th[c].job_id = th[d].job_id
        /\ ~job_definitions'[th[d].job_id].enabled)
          => \A sid \in DOMAIN schedulers' :
                schedulers'[sid].running
                   => CronJobId(th[d].job_id) \notin DOMAIN schedulers'[sid].jobs

\* C11: no step of update_job_definition (its reload included) touches a run
\* in flight, its run row, its snapshots or its lock; and when an update that
\* disables a job returns while a run of that job is executing and the job is
\* persisted as disabled, no cron trigger of the job is left armed on a
\* running scheduler, so that no scheduler-triggered run of it can start.
C11_DisableSparesRun == [][C11_NoInterrupt /\ C11_Disabled]_vars

C12_Read ==
    \A c \in Threads :
       (th[c].pc = "idle" /\ th'[c].op = "get_latest_snapshot") =>
          LET part == {i \in DOMAIN widget_snapshots :
                          /\ widget_snapshots[i].tx = NoThread
                          /\ widget_snapshots[i].widget_key = th'[c].args[1]
                          /\ widget_snapshots[i].scope = th'[c].args[2]}
              row == th'[c].snapshot
          IN /\ row = None <=> part = {}
             /\ row # None =>
                   /\ row \in part
                   /\ \A i \in part :
                         widget_snapshots[i].fetched_at <= widget_snapshots[row].fetched_at

\* C12: a call of get_latest_snapshot(widget_key, scope) returns None exactly
\* when no committed row has that widget key and scope, and otherwise a
\* committed row of exactly that key and scope whose fetched_at no row of the
\* partition exceeds, whatever runs have inserted and whatever they have in
\* flight.
C12_LatestIsMax == [][C12_Read]_vars

\* A read has returned the newer of two committed rows that two different
\* runs put in the same partition.
C12_Witness ==
    \E c \in Threads, i, k \in DOMAIN widget_snapshots :
       /\ th[c].op = "get_latest_snapshot" /\ th[c].pc = "done"
       /\ th[c].snapshot = k
       /\ i # k
       /\ widget_snapshots[i].tx = NoThread /\ widget_snapshots[k].tx = NoThread
       /\ widget_snapshots[i].widget_key = widget_snapshots[k].widget_key
       /\ widget_snapshots[i].scope = widget_snapshots[k].scope
       /\ widget_snapshots[i].job_run_id # widget_snapshots[k].job_run_id
       /\ widget_snapshots[i].fetched_at < widget_snapshots[k].fetched_at

\* The rows get_latest_snapshot may return for a partition (none when it is
\* empty).
C13_Latest(widget_key, scope) ==
    {i \in Partition(widget_key, scope) :
        \A k \in Partition(widget_key, scope) :
           widget_snapshots[k].fetched_at <= widget_snapshots[i].fetched_at}

C13_CleanupCommits(c) ==
    /\ th[c].op = "run_job_now" /\ th[c].job_id = "cleanup_snapshots"
    /\ th[c].pc = "finalize" /\ th'[c].pc = "finally" /\ th'[c].exc = ""
    /\ th[c].status = "success"

C13_Step ==
    \A c \in Threads :
       C13_CleanupCommits(c) =>
          \A j \in SnapshotJobs :
             C13_Latest(j, "global")' = C13_Latest(j, "global")

\* C13: the commit of a cleanup_snapshots run, whatever keep_days in 1..365 it
\* ran with and however old the rows are, leaves every partition's latest
\* snapshot in place: get_latest_snapshot answers after the run what it
\* answered just before it.
C13_LatestSurvives == [][C13_Step]_vars

C14_Body ==
    \A c \in Threads :
       (/\ th[c].op = "run_job_now" /\ th[c].job_id = "cleanup_snapshots"
        /\ th[c].pc = "body" /\ th'[c].pc = "finalize" /\ th'[c].status = "success")
          => LET keep_days == th[c].params.keep_days.i
                 cutoff == now - keep_days * TicksPerDay
                 snapshots == {i \in DOMAIN widget_snapshots :
                                  widget_snapshots[i].fetched_at < cutoff}
                 runs == {i \in DOMAIN job_runs : job_runs[i].started_at < cutoff}
             IN /\ keep_days \in 1..365
                /\ th'[c].deleted = [widget_snapshots |-> snapshots, job_runs |-> runs]
                /\ th'[c].message.snapshots = Cardinality(snapshots)
                /\ th'[c].message.runs = Cardinality(runs)
                /\ th'[c].message.keep_days = keep_days
                /\ th[c].run_id \notin runs

C14_Commit ==
    \A c \in Threads :
       (/\ th[c].op = "run_job_now" /\ th[c].job_id = "cleanup_snapshots"
        /\ th[c].pc = "finalize" /\ th'[c].pc = "finally" /\ th[c].status = "success")
          => IF th'[c].exc = ""
             THEN /\ DOMAIN widget_snapshots' =
                        (DOMAIN widget_snapshots) \ th[c].deleted.widget_snapshots
                  /\ DOMAIN job_runs' = (DOMAIN job_runs) \ th[c].deleted.job_runs
                  /\ \A i \in DOMAIN widget_snapshots' :
                        widget_snapshots'[i].fetched_at = widget_snapshots[i].fetched_at
                  /\ \A i \in DOMAIN job_runs' :
                        job_runs'[i].started_at = job_runs[i].started_at
                  /\ job_runs'[th[c].run_id].message.snapshots =
                        Cardinality((DOMAIN widget_snapshots) \ DOMAIN widget_snapshots')
                  /\ job_runs'[th[c].run_id].message.runs =
                        Cardinality((DOMAIN job_runs) \ DOMAIN job_runs')
             ELSE /\ \A i \in DOMAIN widget_snapshots :
                        widget_snapshots[i].tx = NoThread => i \in DOMAIN widget_snapshots'
                  /\ \A i \in DOMAIN job_runs :
                        job_runs[i].tx = NoThread => i \in DOMAIN job_runs'

\* C14: a cleanup_snapshots run with keep_days (always within 1..365) marks
\* for deletion exactly the WidgetSnapshot rows whose fetched_at is strictly
\* before now - keep_days days and the JobRun rows whose started_at is
\* strictly before that cut-off, never its own run row; its commit removes
\* exactly those rows and keeps every other row as it was; the counts in the
\* message of the run equal the numbers of rows removed; a refused commit
\* removes nothing.
C14_DeletesOlderThanCutoff == [][C14_Body /\ C14_Commit]_vars

\* A run with keep_days=30 has returned: it deleted the snapshot and the run
\* of 40 days ago and kept those of 5 days ago.
C14_Witness ==
    \E c \in Threads :
       /\ th[c].op = "run_job_now" /\ th[c].job_id = "cleanup_snapshots"
       /\ th[c].pc = "done" /\ th[c].result.ok
       /\ th[c].result.message.keep_days = 30
       /\ th[c].result.message.snapshots = 1 /\ th[c].result.message.runs = 1
       /\ job_definitions["trade_corridors"].last_success_at = 0 - 40 * TicksPerDay
       /\ DOMAIN widget_snapshots = {2}
       /\ widget_snapshots[2].fetched_at = 0 - 5 * TicksPerDay
       /\ DOMAIN job_runs = {2, th[c].run_id}
       /\ job_runs[2].started_at = 0 - 5 * TicksPerDay - 1

\* ---------------------------------------------------------------------------
\* C15: a generation whose text generator returns ok=false returns
\* (false, error message) and adds no widget_insights row for its
\* (card_key, tab_key, scope, lang); one whose generator returns ok=true adds
\* exactly one row, carrying the digest of the inputs, the input snapshot
\* keys, the prompt and the provider and model.
C15_NewInsights == DOMAIN widget_insights' \ DOMAIN widget_insights

C15_RowOf(o, i) ==
    /\ widget_insights'[i].card_key = o.card_key
    /\ widget_insights'[i].tab_key = o.tab_key
    /\ widget_insights'[i].scope = o.scope
    /\ widget_insights'[i].lang = o.lang

C15_Carries(c, row) ==
    /\ row.data_digest = <<"sha256", row.llm_prompt[2]>>
    /\ row.llm_prompt[1] = "Generate dashboard Insight"
    /\ Len(row.input_snapshot_keys) = 1
    /\ row.input_snapshot_keys[1].snapshot_id \in DOMAIN widget_snapshots
    /\ widget_snapshots[row.input_snapshot_keys[1].snapshot_id].widget_key
          = row.input_snapshot_keys[1].widget_key
    /\ \E llm \in LLMResults :
          llm.ok /\ row.llm_provider = llm.provider /\ row.llm_model = llm.model
    /\ row.generated_by = "llm"
    /\ row.job_run_id = th[c].run_id

C15_Step ==
    \A c \in Threads :
       th[c].pc = "generate" /\ th'[c].pc = "finalize" =>
          \A k \in 1..Len(th'[c].llm) :
             LET o == th'[c].llm[k]
                 mine == {i \in C15_NewInsights : C15_RowOf(o, i)}
             IN IF o.ok
                THEN /\ o.err = NoneStr
                     /\ Cardinality(mine) = 1
                     /\ \A i \in mine : C15_Carries(c, widget_insights'[i])
                ELSE /\ o.err # NoneStr /\ o.err # ""
                     /\ mine = {}

C15_RowOnlyOnOk == [][C15_Step]_vars

\* A run has made one generation that failed and one that succeeded, and
\* holds the row of the latter in its session.
C15_Witness ==
    \E c \in Threads :
       /\ th[c].pc = "finalize"
       /\ th[c].job_id = "generate_homepage_insights"
       /\ \E k, m \in 1..Len(th[c].llm) : th[c].llm[k].ok /\ ~th[c].llm[m].ok
       /\ \E i \in DOMAIN widget_insights : widget_insights[i].tx = c

\* ---------------------------------------------------------------------------
\* C16: for every (card_key, tab_key, scope, lang), a committed
\* widget_insights row written by a run that was not forced has a data_digest
\* other than that of the row written before it for the same key.
C16_SameKey(a, b) ==
    /\ a.card_key = b.card_key
    /\ a.tab_key = b.tab_key
    /\ a.scope = b.scope
    /\ a.lang = b.lang

C16_Forced(row) ==
    /\ row.job_run_id \in DOMAIN job_runs
    /\ _as_bool(Get(job_runs[row.job_run_id].params, "force_regen"), FALSE)

C16_NewRowOnlyOnNewDigest ==
    \A i, j \in DOMAIN widget_insights :
       /\ i < j
       /\ widget_insights[i].tx = NoThread
       /\ widget_insights[j].tx = NoThread
       /\ C16_SameKey(widget_insights[i], widget_insights[j])
       /\ \A k \in DOMAIN widget_insights :
             i < k /\ k < j => ~C16_SameKey(widget_insights[i], widget_insights[k])
       /\ ~C16_Forced(widget_insights[j])
       => widget_insights[i].data_digest # widget_insights[j].data_digest

\* ---------------------------------------------------------------------------
\* C17: the body of generate_homepage_insights raises, and the run is
\* recorded failed, exactly when at least one generation was attempted and
\* every attempted generation failed; otherwise the run is a success whose
\* message reports the attempted and failed counts, also when nothing was
\* attempted.
C17_Attempted(llm) == Len(llm)

C17_Failed(llm) == Cardinality({k \in 1..Len(llm) : ~llm[k].ok})

C17_AllFailed(llm) == C17_Attempted(llm) > 0 /\ C17_Failed(llm) = C17_Attempted(llm)

C17_Body ==
    \A c \in Threads :
       th[c].pc = "generate" /\ th'[c].pc = "finalize" =>
          IF C17_AllFailed(th'[c].llm)
          THEN th'[c].status = "failed" /\ th'[c].error # NoneStr
          ELSE /\ th'[c].status = "success"
               /\ th'[c].message.attempted = C17_Attempted(th'[c].llm)
               /\ th'[c].message.failed = C17_Failed(th'[c].llm)
               /\ th'[c].message.partial = (C17_Failed(th'[c].llm) > 0)

C17_Recorded ==
    \A c \in Threads :
       /\ th[c].pc = "finalize" /\ th'[c].pc = "finally"
       /\ th[c].job_id = "generate_homepage_insights"
       /\ th'[c].exc = th[c].exc
       => /\ job_runs'[th[c].run_id].status =
               IF C17_AllFailed(th[c].llm) THEN "failed" ELSE "success"
          /\ job_runs'[th[c].run_id].message = th[c].message

C17_RaisesIffAllFailed == [][C17_Body /\ C17_Recorded]_vars

\* A committed run is a success although one of its generations failed.
C17_Witness ==
    \E r \in DOMAIN job_runs :
       /\ job_runs[r].job_id = "generate_homepage_insights"
       /\ job_runs[r].tx = NoThread
       /\ job_runs[r].status = "success"
       /\ job_runs[r].message.partial
       /\ job_runs[r].message.attempted > job_runs[r].message.failed

\* ---------------------------------------------------------------------------
\* C18: a run of generate_homepage_insights that rotates (no scope filter,
\* force_all false) processes exactly the geography geo_list[cursor mod n] of
\* the cursor of its language and stores the cursor (cursor + 1) mod n, which
\* lies in 0..n-1; among consecutive rotating runs over the same n-element
\* geo_list in the same language, any two less than n runs apart process
\* different geographies, so that n consecutive runs process each geography
\* once. The geography a run processed is read off the per-geography rows it
\* committed.
C18_Rotating(r) ==
    /\ r \in DOMAIN job_runs
    /\ job_runs[r].job_id = "generate_homepage_insights"
    /\ _normalize_scope_list(Get(job_runs[r].params, "scope")) = <<>>
    /\ ~_as_bool(Get(job_runs[r].params, "force_all"), FALSE)

C18_GeoList(r) == _as_geo_list(Get(job_runs[r].params, "geo_list"))

C18_Window(r, q) ==
    /\ r < q
    /\ \A k \in r..q :
          /\ C18_Rotating(k)
          /\ C18_GeoList(k) = C18_GeoList(r)
          /\ InsightLang(job_runs[k].params) = InsightLang(job_runs[r].params)
    /\ q - r < Len(C18_GeoList(r))

C18_Processed(r) ==
    {widget_insights[i].scope : i \in {k \in DOMAIN widget_insights :
        /\ widget_insights[k].tx = NoThread
        /\ widget_insights[k].job_run_id = r
        /\ widget_insights[k].scope # "global"}}

C18_EachGeographyOnce ==
    \A r, q \in DOMAIN job_runs :
       C18_Window(r, q) => C18_Processed(r) \cap C18_Processed(q) = {}

C18_RotatingParams(params) ==
    /\ _normalize_scope_list(Get(params, "scope")) = <<>>
    /\ ~_as_bool(Get(params, "force_all"), FALSE)

C18_CursorKey(params) == <<"generate_homepage_insights", InsightLang(params)>>

C18_Cursor(params) ==
    IF C18_CursorKey(params) \in DOMAIN widget_insight_job_state
    THEN widget_insight_job_state[C18_CursorKey(params)].geo_idx
    ELSE 0

C18_Choose ==
    \A c \in Threads :
       /\ th[c].pc = "body" /\ th'[c].pc = "generate"
       /\ C18_RotatingParams(th[c].params)
       => LET geo_list == _as_geo_list(Get(th[c].params, "geo_list"))
              n == Len(geo_list)
          IN th'[c].geos_to_process = <<geo_list[(C18_Cursor(th[c].params) % n) + 1]>>

C18_Store ==
    \A c \in Threads :
       /\ th[c].pc = "finalize" /\ th'[c].pc = "finally" /\ th'[c].exc = th[c].exc
       /\ th[c].job_id = "generate_homepage_insights"
       /\ C18_RotatingParams(th[c].params)
       => LET n == Len(_as_geo_list(Get(th[c].params, "geo_list")))
              stored == widget_insight_job_state'[C18_CursorKey(th[c].params)].geo_idx
          IN /\ stored = (C18_Cursor(th[c].params) + 1) % n
             /\ 0 <= stored /\ stored < n

C18_RotatesCursor == [](C18_EachGeographyOnce) /\ [][C18_Choose /\ C18_Store]_vars

\* Two consecutive rotating runs over the same geo_list have each committed
\* a per-geography row, and the cursor has wrapped around to 0.
C18_Witness ==
    \E r, q \in DOMAIN job_runs :
       /\ C18_Window(r, q)
       /\ C18_Processed(r) # {}
       /\ C18_Processed(q) # {}
       /\ C18_Cursor(job_runs[r].params) = 0

\* ---------------------------------------------------------------------------
\* C19: the body of a data-fetching job records one snapshot per requested
\* geography (one global snapshot for trade_corridors and
\* wealth_disposable_latest) whatever the ok flag of the fetch: is_stale is
\* the negation of ok, the run ends success, and for trade_exim_5y the
\* message counts as many snapshots as the normalized geo_list is long and as
\* many stale ones as fetches were not ok; the commit records the run as
\* success with these snapshots.
C19_Scopes(c) ==
    IF th[c].job_id = "trade_exim_5y" THEN th[c].params.geo_list.l ELSE <<"global">>

C19_Body ==
    \A c \in Threads :
       /\ th[c].pc = "body" /\ th'[c].pc = "finalize"
       /\ th[c].job_id \in SnapshotJobs \cup {"trade_exim_5y"}
       => LET scopes == C19_Scopes(c)
              payloads == th'[c].payloads
              not_ok == {k \in 1..Len(payloads) : ~payloads[k].ok}
          IN /\ th'[c].status = "success"
             /\ Len(payloads) = Len(scopes)
             /\ next_snapshot_id' = next_snapshot_id + Len(scopes)
             /\ DOMAIN widget_snapshots' =
                   (DOMAIN widget_snapshots) \cup (next_snapshot_id .. next_snapshot_id' - 1)
             /\ \A k \in 1..Len(scopes) :
                   LET row == widget_snapshots'[next_snapshot_id + k - 1]
                   IN /\ row.widget_key = th[c].job_id
                      /\ row.scope = scopes[k]
                      /\ row.is_stale = ~payloads[k].ok
                      /\ row.job_run_id = th[c].run_id
             /\ th[c].job_id = "trade_exim_5y" =>
                   /\ th'[c].message.count = Len(scopes)
                   /\ th'[c].message.stale = Cardinality(not_ok)

C19_Recorded ==
    \A c \in Threads :
       /\ th[c].pc = "finalize" /\ th'[c].pc = "finally" /\ th'[c].exc = th[c].exc
       /\ th[c].job_id \in SnapshotJobs \cup {"trade_exim_5y"}
       /\ Len(th[c].payloads) > 0
       => LET mine == {i \in DOMAIN widget_snapshots' :
                          widget_snapshots'[i].job_run_id = th[c].run_id}
          IN /\ job_runs'[th[c].run_id].status = "success"
             /\ Cardinality(mine) = Len(C19_Scopes(c))
             /\ \A i \in mine : widget_snapshots'[i].tx = NoThread

C19_SnapshotPerGeography == [][C19_Body /\ C19_Recorded]_vars

\* A committed run of trade_exim_5y over two geographies is a success with
\* one stale and one fresh snapshot.
C19_Witness ==
    \E r \in DOMAIN job_runs :
       /\ job_runs[r].job_id = "trade_exim_5y"
       /\ job_runs[r].tx = NoThread
       /\ job_runs[r].status = "success"
       /\ job_runs[r].message.count = 2
       /\ job_runs[r].message.stale = 1
       /\ \E i, k \in DOMAIN widget_snapshots :
             /\ widget_snapshots[i].job_run_id = r /\ widget_snapshots[i].is_stale
             /\ widget_snapshots[k].job_run_id = r /\ ~widget_snapshots[k].is_stale
             /\ widget_snapshots[i].tx = NoThread /\ widget_snapshots[k].tx = NoThread

\* ---------------------------------------------------------------------------
\* C20: a trade_exim_5y snapshot has as source_updated_at 31 December of the
\* year that is the period of the last row of the series with an export or
\* import value; it is null with a note when there is no such row (not
\* declared), when the period is not all digits (unrecognized format) and
\* when the year is outside 1900..2200 (out of range). A run over [India]
\* with end_year 2024 whose fetch is ok and ends in period 2024 records
\* exactly one snapshot (trade_exim_5y, India), not stale, with
\* source_updated_at 2024-12-31.
C20_WithValue(series) ==
    {k \in 1..Len(series) : series[k].export_usd # None \/ series[k].import_usd # None}

C20_Last(series) ==
    CHOOSE k \in C20_WithValue(series) : \A m \in C20_WithValue(series) : m <= k

C20_Inferred(series, row) ==
    IF C20_WithValue(series) = {}
    THEN /\ row.source_updated_at = None
         /\ row.source_updated_at_note[1] = "source does not declare an as-of date"
    ELSE LET period == strip(series[C20_Last(series)].period.s)
         IN IF ~isdigit(period)
            THEN /\ row.source_updated_at = None
                 /\ row.source_updated_at_note[1] = "unrecognized period format"
            ELSE IF int(period) \notin 1900..2200
            THEN /\ row.source_updated_at = None
                 /\ row.source_updated_at_note[1] = "out-of-range year"
            ELSE /\ row.source_updated_at = int(period) * 10000 + 1231
                 /\ row.source_updated_at_note[1] = "inferred from annual period year-end"

C20_Body ==
    \A c \in Threads :
       /\ th[c].pc = "body" /\ th'[c].pc = "finalize"
       /\ th[c].job_id = "trade_exim_5y"
       => \A k \in 1..Len(th'[c].payloads) :
             C20_Inferred(th'[c].payloads[k].series,
                          widget_snapshots'[next_snapshot_id + k - 1])

C20_Example ==
    \A c \in Threads :
       /\ th[c].pc = "body" /\ th'[c].pc = "finalize"
       /\ th[c].job_id = "trade_exim_5y"
       /\ th[c].params.geo_list.l = <<"India">>
       /\ th[c].params.end_year = PyInt(2024)
       /\ th'[c].payloads[1].ok
       /\ latest_period(th'[c].payloads[1].series) = PyStr(<<"2", "0", "2", "4">>)
       => LET new == (DOMAIN widget_snapshots') \ (DOMAIN widget_snapshots)
          IN /\ Cardinality(new) = 1
             /\ \A i \in new :
                   /\ widget_snapshots'[i].widget_key = "trade_exim_5y"
                   /\ widget_snapshots'[i].scope = "India"
                   /\ ~widget_snapshots'[i].is_stale
                   /\ widget_snapshots'[i].source_updated_at = 20241231

C20_SourceUpdatedAtIsYearEnd == [][C20_Body /\ C20_Example]_vars

\* The run of the example is committed: one snapshot (trade_exim_5y, India),
\* not stale, dated 2024-12-31.
C20_Witness ==
    \E r \in DOMAIN job_runs :
       /\ job_runs[r].job_id = "trade_exim_5y"
       /\ job_runs[r].tx = NoThread
       /\ job_runs[r].params.geo_list = PyList(<<"India">>)
       /\ job_runs[r].params.end_year = PyInt(2024)
       /\ \E i \in DOMAIN widget_snapshots :
             /\ widget_snapshots[i].job_run_id = r
             /\ widget_snapshots[i].tx = NoThread
             /\ widget_snapshots[i].widget_key = "trade_exim_5y"
             /\ widget_snapshots[i].scope = "India"
             /\ ~widget_snapshots[i].is_stale
             /\ widget_snapshots[i].source_updated_at = 20241231
             /\ \A k \in DOMAIN widget_snapshots : k = i


\* C21: digest_for_inputs is determined by the content of its argument: two
\* objects with the same content, whatever the insertion order of the keys of
\* their maps, get the same digest, and two objects that differ in a field
\* get different digests.
RECURSIVE C21_SameContent(_, _)
C21_SameContent(x, y) ==
    /\ x.t = y.t
    /\ CASE x.t = "none" -> TRUE
         [] x.t = "bool" -> x.b = y.b
         [] x.t = "int" -> x.i = y.i
         [] x.t = "str" -> x.s = y.s
         [] x.t = "datetime" -> x.d = y.d
         [] x.t = "list" ->
               /\ Len(x.l) = Len(y.l)
               /\ \A i \in 1..Len(x.l) : C21_SameContent(x.l[i], y.l[i])
         [] x.t = "dict" ->
               /\ {x.items[i][1] : i \in 1..Len(x.items)}
                     = {y.items[i][1] : i \in 1..Len(y.items)}
               /\ \A i \in 1..Len(x.items), k \in 1..Len(y.items) :
                     x.items[i][1] = y.items[k][1]
                        => C21_SameContent(x.items[i][2], y.items[k][2])

C21_Digested(c) == th[c].op = "digest_for_inputs" /\ th[c].pc = "done"

C21_DigestOfContent ==
    \A c, d \in Threads :
       C21_Digested(c) /\ C21_Digested(d)
          => (th[c].result = th[d].result
                 <=> C21_SameContent(th[c].args[1], th[d].args[1]))

\* Two objects of the same content whose keys were inserted in different
\* orders have been digested.
C21_Witness ==
    /\ \A c \in Threads : C21_Digested(c)
    /\ C21_SameContent(th["t1"].args[1], th["t2"].args[1])
    /\ th["t1"].args[1].items[1][1] # th["t2"].args[1].items[1][1]
    /\ th["t1"].result = th["t2"].result

\* C22: every numeric parameter a normalizer produces lies inside its bounds
\* (years 2..20, lookback_years 5..60, keep_days 1..365, end_year 1960..the
\* current year); a value above the maximum gives the maximum, a value below
\* the minimum the minimum, and a value that is not an integer the default.
C22_Bounds ==
    [years |-> [min |-> 2, max |-> 20, default |-> 5],
     lookback_years |-> [min |-> 5, max |-> 60, default |-> 20],
     keep_days |-> [min |-> 1, max |-> 365, default |-> JOB_RETENTION_DAYS],
     end_year |-> [min |-> 1960, max |-> _now_year, default |-> _now_year - 1]]

\* The integer a raw value stands for: an int, a float without a fraction, a
\* text holding an integer literal; None for a value that is not an integer.
C22_Integer(value) ==
    IF value.t = "int" THEN value.i
    ELSE IF value.t = "bool" THEN (IF value.b THEN 1 ELSE 0)
    ELSE IF value.t = "float" /\ value.tenths % 10 = 0 THEN value.tenths \div 10
    ELSE IF value.t = "str" /\ IntOfStr[value.s].ok THEN IntOfStr[value.s].i
    ELSE None

C22_Normalized(c) == th[c].op = "normalize_params" /\ th[c].pc = "done"

C22_Expected(key, value) ==
    LET b == C22_Bounds[key]
        i == C22_Integer(value)
    IN IF i = None THEN b.default
       ELSE IF i > b.max THEN b.max
       ELSE IF i < b.min THEN b.min
       ELSE i

C22_Clamped ==
    \A c \in Threads :
       C22_Normalized(c) =>
          \A key \in DOMAIN C22_Bounds \cap DOMAIN th[c].params :
             /\ th[c].params[key].i >= C22_Bounds[key].min
             /\ th[c].params[key].i <= C22_Bounds[key].max
             /\ th[c].params[key].i = C22_Expected(key, Get(th[c].params_override, key))

\* C23: for every raw geo_list the normalized geo_list is a non-empty list
\* without repeats of canonical allowed names: the allowed names that a
\* supplied name equals up to case and surrounding blanks, and the full
\* default list when there is none (an unknown name such as 'Mars', a missing
\* value, a value that is neither a text nor a list).
C23_Allowed == {ALLOWED_GEOS[i] : i \in 1..Len(ALLOWED_GEOS)}

C23_Supplied(value) ==
    IF value.t = "str" THEN SplitCommas(value.s)
    ELSE IF value.t = "list" THEN value.l
    ELSE <<>>

C23_Valid(value) ==
    LET supplied == C23_Supplied(value)
    IN {g \in C23_Allowed :
          \E i \in 1..Len(supplied) : StripLower(supplied[i]) = StripLower(g)}

C23_Called(c) ==
    /\ th[c].op = "normalize_params"
    /\ th[c].pc = "done"
    /\ "geo_list" \in DOMAIN th[c].params

C23_CanonicalGeoList ==
    \A c \in Threads :
       C23_Called(c) =>
          LET out == th[c].params.geo_list.l
              valid == C23_Valid(Get(th[c].params_override, "geo_list"))
          IN /\ out # <<>>
             /\ \A i, k \in 1..Len(out) : out[i] = out[k] => i = k
             /\ \A i \in 1..Len(out) : out[i] \in C23_Allowed
             /\ IF valid = {} THEN out = ALLOWED_GEOS
                ELSE {out[i] : i \in 1..Len(out)} = valid

\* A list naming Hong Kong twice in different case, an unknown name and India
\* has been normalized to the two canonical names.
C23_Witness ==
    \E c \in Threads :
       /\ C23_Called(c)
       /\ Get(th[c].params_override, "geo_list")
             = PyList(<<"hong kong", "Mars", "Hong Kong", "India">>)
       /\ th[c].params.geo_list.l = <<"Hong Kong", "India">>

\* C24: the parameters a run executes with and stores in its job_runs row are
\* the job's normalizer applied to the stored default_params with the
\* caller's overrides laid over them key by key, and no step of a run changes
\* the default_params of a job definition.
C24_Overlay(defaults, overrides) ==
    [k \in (DOMAIN defaults) \cup (DOMAIN overrides) |->
        IF k \in DOMAIN overrides THEN overrides[k] ELSE defaults[k]]

C24_Open ==
    \A c \in Threads :
       th[c].op = "run_job_now" /\ th[c].pc = "open" /\ th'[c].pc = "schedule" =>
          /\ th'[c].params
                = normalize_params(th[c].job_id,
                                   C24_Overlay(job_definitions[th[c].job_id].default_params,
                                               th[c].params_override))
          /\ job_runs'[th'[c].run_id].params = th'[c].params

C24_RunKeepsParams ==
    /\ \A i \in (DOMAIN job_runs) \cap (DOMAIN job_runs') :
          job_runs'[i].params = job_runs[i].params
    /\ \A c \in Threads :
          th[c].op = "run_job_now" /\ th'[c].op = "run_job_now"
             /\ th[c].pc \in {"schedule", "body", "generate"}
             => th'[c].params = th[c].params

C24_RunKeepsDefaults ==
    \A c \in Threads :
       th'[c] # th[c] /\ "run_job_now" \in {th[c].op, th'[c].op} =>
          \A j \in DOMAIN job_definitions :
             /\ j \in DOMAIN job_definitions'
             /\ job_definitions'[j].default_params = job_definitions[j].default_params

C24_ParamsOfRun == [][C24_Open /\ C24_RunKeepsParams /\ C24_RunKeepsDefaults]_vars

\* A run of trade_exim_5y over saved parameters has committed: India and the
\* end year come from the overrides, the ten years from the saved parameters,
\* which are as they were saved.
C24_Witness ==
    \E i \in DOMAIN job_runs :
       /\ job_runs[i].tx = NoThread
       /\ job_runs[i].job_id = "trade_exim_5y"
       /\ job_runs[i].status = "success"
       /\ job_runs[i].params.geo_list = PyList(<<"India">>)
       /\ job_runs[i].params.years = PyInt(10)
       /\ job_definitions["trade_exim_5y"].default_params
             = EximDefinitions["trade_exim_5y"].default_params
       /\ job_definitions["trade_exim_5y"].last_success_at # None

\* C25: all calls of _get_lock for one job id return the same lock object:
\* no two callers hold different lock objects for the same job id, under any
\* interleaving of first-time requests.
C25_OneLockPerJob ==
    \A c, d \in Threads :
       /\ th[c].lock # NoLock
       /\ th[d].lock # NoLock
       /\ th[c].job_id = th[d].job_id
       => th[c].lock = th[d].lock

\* C26: init_scheduler on a running scheduler changes nothing: no second
\* scheduler is started, no trigger is armed again, no second warm-up is
\* scheduled, also when two calls race (the second waits for _SCHED_LOCK).
\* shutdown_scheduler on a stopped scheduler changes nothing, and it returns
\* without waiting for the runs in flight, which it leaves as they are: a run
\* of a stopped scheduler that has ended has finalised its row and has
\* released its lock.
C26_Calls(c, op) == th[c].pc = "idle" /\ th'[c].pc # "idle" /\ th'[c].op = op

C26_InitOnRunning ==
    \A c \in Threads :
       C26_Calls(c, "init_scheduler") /\ _SCHEDULER # None =>
          /\ th'[c].pc = "done"
          /\ UNCHANGED schedVars

C26_Shutdown ==
    \A c \in Threads :
       C26_Calls(c, "shutdown_scheduler") =>
          /\ th'[c].pc = "done"
          /\ _SCHEDULER' = None
          /\ _SCHEDULER = None => UNCHANGED schedVars
          /\ \A d \in Threads \ {c} : th'[d] = th[d]
          /\ UNCHANGED <<job_runs, lockVars>>

\* One scheduler runs at most, the published one, and one call of
\* init_scheduler at most is past the test of _SCHEDULER.
C26_OneScheduler ==
    /\ \A sid \in DOMAIN schedulers : schedulers[sid].running => _SCHEDULER = sid
    /\ \A c \in Threads :
          th[c].op = "init_scheduler" /\ th[c].pc \notin {"idle", "done", "raised"}
             => _SCHED_LOCK = c

C26_RunsEnd ==
    \A d \in Threads :
       /\ th[d].op = "run_job_now"
       /\ th[d].pc \in {"done", "raised"}
       /\ th[d].via # NoJob
       /\ ~schedulers[th[d].via[1]].running
       => /\ \A l \in DOMAIN locked : locked[l] # d
          /\ th[d].run_id \in DOMAIN job_runs
                => job_runs[th[d].run_id].status \in {"success", "failed"}

C26_InitAndShutdownRepeat ==
    [](C26_OneScheduler /\ C26_RunsEnd) /\ [][C26_InitOnRunning /\ C26_Shutdown]_vars

\* Two calls of init_scheduler have returned and one scheduler exists, which
\* runs with its triggers armed.
C26_Witness ==
    /\ \A c \in Threads : th[c].op = "init_scheduler" /\ th[c].pc = "done"
    /\ DOMAIN schedulers = {1}
    /\ schedulers[1].running
    /\ schedulers[1].jobs # <<>>

\* C27: the scheduler goes from stopped to running to stopped once in the
\* life of the process: when shutdown_scheduler has stopped a scheduler, no
\* scheduler runs and no trigger is armed from then on, whatever
\* init_scheduler is called afterwards.
C27_SingleCycle ==
    (\E sid \in DOMAIN schedulers : ~schedulers[sid].running) =>
        /\ _SCHEDULER = None
        /\ \A sid \in DOMAIN schedulers :
              ~schedulers[sid].running /\ schedulers[sid].jobs = <<>>

\* C28: the warm-up is armed only by init_scheduler, when the scheduler has
\* started and no snapshot is stored; it schedules each data-fetching job once
\* as 'startup', the k-th 2k seconds from now, then generate_homepage_insights
\* 90 seconds from now, later than every data-fetching job, and never
\* cleanup_snapshots; with a snapshot stored no warm-up trigger is armed.
C28_DataJobs == <<"trade_corridors", "wealth_disposable_latest">>

C28_Order == C28_DataJobs \o <<"generate_homepage_insights">>

C28_Stored == {i \in DOMAIN widget_snapshots : widget_snapshots[i].tx = NoThread}

C28_WarmupIds(jobs) == {id \in DOMAIN jobs : id[1] = "warmup"}

\* init_scheduler decides on the warm-up.
C28_Decides ==
    \A c \in Threads :
       th[c].pc = "warmup" /\ th'[c] # th[c] =>
          /\ th[c].op = "init_scheduler"
          /\ IF C28_Stored = {} /\ _SCHEDULER # None
             THEN th'[c].pc = "warmup_add" /\ th'[c].rows = C28_Order
                     /\ schedulers[_SCHEDULER].running
             ELSE th'[c].pc = "done"
          /\ UNCHANGED schedulers

\* A warm-up trigger is added by the loop of the warm-up alone, for the next
\* job in the order.
C28_Adds ==
    \A sid \in DOMAIN schedulers :
       \A id \in C28_WarmupIds(schedulers'[sid].jobs) :
          id \notin DOMAIN schedulers[sid].jobs
             \/ schedulers'[sid].jobs[id] # schedulers[sid].jobs[id] =>
             \E c \in Threads :
                LET k == Len(C28_Order) - Len(th[c].rows) + 1
                    job == schedulers'[sid].jobs[id]
                IN /\ th[c].op = "init_scheduler"
                   /\ th[c].pc = "warmup_add"
                   /\ th[c].scheduler = sid
                   /\ th'[c].pc \in {"warmup_add", "done"}
                   /\ th'[c].pc = "warmup_add" => th'[c].rows = Tail(th[c].rows)
                   /\ k \in 1..Len(C28_Order)
                   /\ id = <<"warmup", C28_Order[k]>>
                   /\ job.trigger = "date"
                   /\ job.args = <<C28_Order[k], PyNone, "startup">>
                   /\ job.run_at = now + (IF k <= Len(C28_DataJobs) THEN 2 * k ELSE 90)
                                            * 1000 * TicksPerMs

\* The warm-up triggers a scheduler holds.
C28_Held ==
    \A sid \in DOMAIN schedulers :
       LET jobs == schedulers[sid].jobs
       IN /\ <<"warmup", "cleanup_snapshots">> \notin DOMAIN jobs
          /\ \A id \in C28_WarmupIds(jobs) : \E k \in 1..Len(C28_Order) : id[2] = C28_Order[k]
          /\ \A i, k \in 1..Len(C28_Order) :
                /\ i < k
                /\ <<"warmup", C28_Order[i]>> \in DOMAIN jobs
                /\ <<"warmup", C28_Order[k]>> \in DOMAIN jobs
                => jobs[<<"warmup", C28_Order[i]>>].run_at
                      < jobs[<<"warmup", C28_Order[k]>>].run_at

C28_WarmupOnEmptyStore == [](C28_Held) /\ [][C28_Decides /\ C28_Adds]_vars

\* The warm-up has armed its three triggers.
C28_Witness ==
    \E sid \in DOMAIN schedulers :
       /\ schedulers[sid].running
       /\ \A k \in 1..Len(C28_Order) :
             <<"warmup", C28_Order[k]>> \in DOMAIN schedulers[sid].jobs
       /\ schedulers[sid].jobs[<<"warmup", "generate_homepage_insights">>].run_at
             = now + 90 * 1000 * TicksPerMs

\* ---------------------------------------------------------------------------
\* C29: a run of generate_homepage_insights whose parameters carry a scope
\* filter, or force_all, leaves the rotation cursor as it was: every step
\* that changes the cursor of a language is the commit of a run of
\* generate_homepage_insights in that language with neither a scope filter
\* nor force_all. With a scope filter the geographies of the run are the
\* listed scopes other than global, every generation it makes is for a
\* listed scope and, when the snapshot of the per-geography tab is there and
\* no card or tab filter is set, the per-geography generations are for
\* exactly the listed scopes other than global; with force_all and no scope
\* filter the same holds of the geographies of the normalized geo_list.
C29_Filters(params) == _normalize_scope_list(Get(params, "scope"))

C29_ForceAll(params) == _as_bool(Get(params, "force_all"), FALSE)

C29_Cursor(key) ==
    IF key \in DOMAIN widget_insight_job_state
    THEN widget_insight_job_state[key].geo_idx
    ELSE 0

C29_RotatingCommit(c, key) ==
    /\ th[c].job_id = "generate_homepage_insights"
    /\ th[c].pc = "finalize" /\ th'[c].pc = "finally"
    /\ C29_Filters(th[c].params) = <<>>
    /\ ~C29_ForceAll(th[c].params)
    /\ key = <<"generate_homepage_insights", InsightLang(th[c].params)>>

C29_CursorKept ==
    \A key \in (DOMAIN widget_insight_job_state) \cup (DOMAIN widget_insight_job_state') :
       C29_Cursor(key)' # C29_Cursor(key) => \E c \in Threads : C29_RotatingCommit(c, key)

C29_AllTabs(params) ==
    /\ Strip(StrOr(Get(params, "card_key"), "")) = ""
    /\ Strip(StrOr(Get(params, "tab_key"), "")) = ""
    /\ Strip(StrOr(Get(params, "type"), "")) = ""

C29_Snapped(c) ==
    \E i \in Visible(widget_snapshots, c) :
       /\ widget_snapshots[i].widget_key = "wealth_disposable_latest"
       /\ widget_snapshots[i].scope = "global"

C29_Made(c) == {th[c].llm[i].scope : i \in DOMAIN th[c].llm}

C29_Scopes(list) == {list[i] : i \in DOMAIN list}

C29_Listed(c) ==
    IF C29_Filters(th[c].params) # <<>>
    THEN SelectSeq(C29_Filters(th[c].params), LAMBDA x : x # "global")
    ELSE _as_geo_list(Get(th[c].params, "geo_list"))

C29_Geographies ==
    \A c \in Threads :
       /\ th[c].job_id = "generate_homepage_insights"
       /\ th[c].pc = "finalize"
       /\ C29_Filters(th[c].params) # <<>> \/ C29_ForceAll(th[c].params)
       => /\ th[c].geos_to_process = C29_Listed(c)
          /\ C29_Filters(th[c].params) # <<>>
                => C29_Made(c) \subseteq C29_Scopes(C29_Filters(th[c].params))
          /\ C29_Snapped(c) /\ C29_AllTabs(th[c].params)
                => C29_Made(c) \ {"global"} = C29_Scopes(C29_Listed(c))

C29_CursorOnlyRotates == [](C29_Geographies) /\ [][C29_CursorKept]_vars

\* A rotating run has moved the cursor to 1 and a later run with the scope
\* filter India has committed its generation for India; the cursor is still 1.
C29_Witness ==
    \E r, q \in DOMAIN job_runs :
       /\ r < q
       /\ job_runs[r].tx = NoThread /\ job_runs[q].tx = NoThread
       /\ job_runs[r].job_id = "generate_homepage_insights"
       /\ job_runs[q].job_id = "generate_homepage_insights"
       /\ C29_Filters(job_runs[r].params) = <<>> /\ ~C29_ForceAll(job_runs[r].params)
       /\ C29_Filters(job_runs[q].params) = <<"India">>
       /\ C29_Cursor(<<"generate_homepage_insights", InsightLang(job_runs[q].params)>>) = 1
       /\ \E i \in DOMAIN widget_insights :
             /\ widget_insights[i].tx = NoThread
             /\ widget_insights[i].job_run_id = q
             /\ widget_insights[i].scope = "India"

\* ---------------------------------------------------------------------------
\* C30: once a run of generate_homepage_insights is recorded, as success or
\* as failed, the committed rows of widget_insights all have generated_by =
\* llm: the body of a run deletes in its session every row of another
\* producer it sees, and every row a step adds has generated_by = llm.
C30_Ran ==
    \E r \in DOMAIN job_runs :
       /\ job_runs[r].tx = NoThread
       /\ job_runs[r].job_id = "generate_homepage_insights"
       /\ job_runs[r].status \in {"success", "failed"}

C30_OnlyLlm ==
    C30_Ran => \A i \in DOMAIN widget_insights :
                  widget_insights[i].tx = NoThread => widget_insights[i].generated_by = "llm"

C30_Purges ==
    \A c \in Threads :
       /\ th[c].job_id = "generate_homepage_insights"
       /\ th[c].pc = "body" /\ th'[c].pc = "generate"
       => th'[c].purged = {i \in Visible(widget_insights, c) :
                             widget_insights[i].generated_by # "llm"}

C30_Writes ==
    \A i \in (DOMAIN widget_insights') \ (DOMAIN widget_insights) :
       widget_insights'[i].generated_by = "llm"

C30_LlmOnlyAfterRun == [](C30_OnlyLlm) /\ [][C30_Purges /\ C30_Writes]_vars

\* A run whose generations all failed has purged the row of another producer
\* and has been recorded as failed; no row is left in the table.
C30_Witness ==
    /\ C30_Ran
    /\ \E c \in Threads :
          /\ th[c].job_id = "generate_homepage_insights"
          /\ th[c].pc = "finally"
          /\ th[c].status = "failed"
          /\ th[c].exc = ""
          /\ th[c].purged # {}
    /\ widget_insights = <<>>

\* ---------------------------------------------------------------------------
\* C31: get_latest_snapshots_by_key(widget_key) returns a map whose keys are
\* exactly the scopes of the committed snapshots of that widget key and whose
\* value for a scope s is a row get_latest_snapshot(widget_key, s) returns on
\* the same database: a row of that partition whose fetched_at no row of the
\* partition exceeds, the one such row when the instants of the partition
\* differ.
C31_Scopes(widget_key) ==
    {widget_snapshots[i].scope :
        i \in {k \in DOMAIN widget_snapshots :
                  /\ widget_snapshots[k].tx = NoThread
                  /\ widget_snapshots[k].widget_key = widget_key}}

C31_Latest(widget_key, scope) ==
    {i \in Partition(widget_key, scope) :
        \A k \in Partition(widget_key, scope) :
           widget_snapshots[k].fetched_at <= widget_snapshots[i].fetched_at}

C31_Read ==
    \A c \in Threads :
       (th[c].pc = "idle" /\ th'[c].op = "get_latest_snapshots_by_key") =>
          LET widget_key == th'[c].args[1]
              out == th'[c].by_scope
          IN /\ DOMAIN out = C31_Scopes(widget_key)
             /\ \A s \in DOMAIN out : out[s] \in C31_Latest(widget_key, s)

C31_Agree ==
    \A c, d \in Threads :
       /\ th[c].pc = "done" /\ th[c].op = "get_latest_snapshots_by_key"
       /\ th[d].pc = "idle" /\ th'[d].op = "get_latest_snapshot"
       /\ th'[d].args[1] = th[c].args[1]
       /\ \A s \in C31_Scopes(th[c].args[1]) :
             /\ s \in DOMAIN th[c].by_scope
             /\ th[c].by_scope[s] \in Partition(th[c].args[1], s)
             /\ \A k \in Partition(th[c].args[1], s) :
                   k # th[c].by_scope[s] =>
                      widget_snapshots[k].fetched_at
                         < widget_snapshots[th[c].by_scope[s]].fetched_at
       => IF th'[d].args[2] \in DOMAIN th[c].by_scope
          THEN th'[d].snapshot = th[c].by_scope[th'[d].args[2]]
          ELSE th'[d].snapshot = None

C31_ByKeyIsLatest == [][C31_Read /\ C31_Agree]_vars

\* The map returned holds two scopes, the row of India being the newer of
\* two, and get_latest_snapshot has returned the same row for India.
C31_Witness ==
    \E c, d \in Threads, i \in DOMAIN widget_snapshots :
       /\ th[c].pc = "done" /\ th[c].op = "get_latest_snapshots_by_key"
       /\ DOMAIN th[c].by_scope = {"India", "Mexico"}
       /\ th[d].pc = "done" /\ th[d].op = "get_latest_snapshot"
       /\ th[d].args = <<"trade_exim_5y", "India">>
       /\ th[d].snapshot = th[c].by_scope["India"]
       /\ i # th[d].snapshot
       /\ widget_snapshots[i].tx = NoThread
       /\ widget_snapshots[i].widget_key = "trade_exim_5y"
       /\ widget_snapshots[i].scope = "India"
       /\ widget_snapshots[i].fetched_at < widget_snapshots[th[d].snapshot].fetched_at

\* ---------------------------------------------------------------------------
\* C32: once the update_job_definition calls of all threads have returned
\* successfully on a running scheduler, no cron trigger is armed for a job
\* persisted as disabled, every job persisted as enabled with a cron
\* expression and time zone that parse has its trigger, and every cron
\* trigger is built from the persisted cron expression and time zone.
C32_AllReturned ==
    /\ _SCHEDULER # None
    /\ \A c \in Threads :
          /\ th[c].op = "update_job_definition"
          /\ th[c].pc = "done"
          /\ th[c].result.ok

C32_Parses(j) ==
    from_crontab(job_definitions[j].cron_expr,
                 IF job_definitions[j].timezone = "" THEN TZ ELSE job_definitions[j].timezone)

C32_ArmedMatchesPersisted ==
    C32_AllReturned =>
       LET jobs == schedulers[_SCHEDULER].jobs
       IN /\ \A j \in DOMAIN job_definitions :
                ~job_definitions[j].enabled => CronJobId(j) \notin DOMAIN jobs
          /\ \A j \in DOMAIN job_definitions :
                job_definitions[j].enabled /\ C32_Parses(j) => CronJobId(j) \in DOMAIN jobs
          /\ \A id \in DOMAIN jobs :
                id[1] = "job" =>
                   /\ id[2] \in DOMAIN job_definitions
                   /\ jobs[id] = CronJob([job_id |-> id[2],
                                          cron_expr |-> job_definitions[id[2]].cron_expr,
                                          timezone |-> job_definitions[id[2]].timezone])

\* ---------------------------------------------------------------------------
\* C33: once init has armed the warm-up, a pending warm-up trigger leaves the
\* running scheduler only by firing, a reload included, and the warm-up job
\* whose trigger comes due is eventually invoked by it (unless the scheduler
\* is shut down or the runs of the behaviour are used up), and no more than
\* once.
C33_Pending(sid) == {id \in DOMAIN schedulers[sid].jobs : id[1] = "warmup"}

C33_Fired(sid, id) ==
    \E c \in Threads :
       /\ th[c].pc = "idle"
       /\ th'[c].op = "run_job_now"
       /\ th'[c].via = <<sid, id>>
       /\ th'[c].triggered_by = "startup"

C33_NotCancelled ==
    \A sid \in DOMAIN schedulers :
       \A id \in C33_Pending(sid) :
          (schedulers'[sid].running /\ id \notin DOMAIN schedulers'[sid].jobs)
             => C33_Fired(sid, id)

C33_Armed ==
    /\ _SCHEDULER # None
    /\ \A c \in Threads : th[c].op # "init_scheduler"
    /\ WarmupJobId("trade_corridors") \in DOMAIN schedulers[_SCHEDULER].jobs

C33_Invoked ==
    \E c \in Threads :
       /\ th[c].op = "run_job_now"
       /\ th[c].job_id = "trade_corridors"
       /\ th[c].triggered_by = "startup"

C33_Excused ==
    \/ _SCHEDULER = None
    \/ next_run_id + RunsInFlight > run_budget

C33_AtMostOnce ==
    Cardinality({r \in DOMAIN job_runs :
                    /\ job_runs[r].job_id = "trade_corridors"
                    /\ job_runs[r].triggered_by = "startup"}) <= 1

C33_WarmupSurvivesReload ==
    /\ [](C33_AtMostOnce)
    /\ [][C33_NotCancelled]_vars
    /\ (C33_Armed ~> (C33_Invoked \/ C33_Excused))

C33_EventuallyInvoked == C33_Armed ~> (C33_Invoked \/ C33_Excused)

\* ---------------------------------------------------------------------------
\* C34: the commit of a run whose body raised keeps what the body wrote: the
\* run row is committed as failed with the error text, the snapshots the
\* body of trade_exim_5y recorded before it raised are committed with it, one
\* per geography fetched, each referring to the id of the run; and the commit
\* of a run of generate_homepage_insights with neither a scope filter nor
\* force_all stores the cursor advanced by one (modulo the length of the
\* geo_list), failed with every generation or not.
C34_Commit(c) ==
    /\ th[c].op = "run_job_now"
    /\ th[c].pc = "finalize" /\ th'[c].pc = "finally" /\ th'[c].exc = ""

C34_Recorded(c) ==
    {i \in DOMAIN widget_snapshots' : widget_snapshots'[i].job_run_id = th[c].run_id}

C34_KeepsSnapshots ==
    \A c \in Threads :
       C34_Commit(c) /\ th[c].status = "failed" /\ th[c].job_id = "trade_exim_5y"
       => /\ job_runs'[th[c].run_id].tx = NoThread
          /\ job_runs'[th[c].run_id].status = "failed"
          /\ job_runs'[th[c].run_id].error = th[c].error
          /\ Cardinality(C34_Recorded(c)) = Len(th[c].payloads)
          /\ \A i \in C34_Recorded(c) :
                /\ widget_snapshots'[i].tx = NoThread
                /\ widget_snapshots'[i].widget_key = "trade_exim_5y"
          /\ {widget_snapshots'[i].scope : i \in C34_Recorded(c)}
                = {th[c].params.geo_list.l[k] : k \in 1..Len(th[c].payloads)}

C34_Cursor(key) ==
    IF key \in DOMAIN widget_insight_job_state
    THEN widget_insight_job_state[key].geo_idx
    ELSE 0

C34_KeepsCursor ==
    \A c \in Threads :
       /\ C34_Commit(c)
       /\ th[c].job_id = "generate_homepage_insights"
       /\ _normalize_scope_list(Get(th[c].params, "scope")) = <<>>
       /\ ~_as_bool(Get(th[c].params, "force_all"), FALSE)
       => LET key == <<"generate_homepage_insights", InsightLang(th[c].params)>>
              n == Len(_as_geo_list(Get(th[c].params, "geo_list")))
          IN /\ job_runs'[th[c].run_id].status = th[c].status
             /\ C34_Cursor(key)' = (C34_Cursor(key) + 1) % n

C34_FailedRunKeepsWrites == [][C34_KeepsSnapshots /\ C34_KeepsCursor]_vars

\* A run of trade_exim_5y recorded as failed has left a committed snapshot
\* that refers to it, and a run of generate_homepage_insights recorded as
\* failed has left the cursor at 1.
C34_Witness ==
    \E r, q \in DOMAIN job_runs :
       /\ job_runs[r].tx = NoThread /\ job_runs[q].tx = NoThread
       /\ job_runs[r].job_id = "trade_exim_5y" /\ job_runs[r].status = "failed"
       /\ \E i \in DOMAIN widget_snapshots :
             /\ widget_snapshots[i].tx = NoThread
             /\ widget_snapshots[i].job_run_id = r
       /\ job_runs[q].job_id = "generate_homepage_insights"
       /\ job_runs[q].status = "failed"
       /\ job_runs[q].error = "all LLM insight generations failed"
       /\ C34_Cursor(<<"generate_homepage_insights", "en">>) = 1

\* ---------------------------------------------------------------------------
\* C35: once a successful run of a job that records a global snapshot is
\* committed, the read of the pages for that widget (get_latest_snapshot
\* with the scope the handlers of app/web/routes.py pass) returns a snapshot
\* of the widget that no committed snapshot of the widget is newer than.
C35_Recorded(widget_key) ==
    {i \in DOMAIN widget_snapshots :
        /\ widget_snapshots[i].tx = NoThread
        /\ widget_snapshots[i].widget_key = widget_key
        /\ widget_snapshots[i].job_run_id \in DOMAIN job_runs
        /\ job_runs[widget_snapshots[i].job_run_id].tx = NoThread
        /\ job_runs[widget_snapshots[i].job_run_id].status = "success"}

C35_PageRead ==
    \A c \in Threads :
       /\ th[c].pc = "idle"
       /\ th'[c].op = "get_latest_snapshot"
       /\ th'[c].args[2] = "Global"
       /\ C35_Recorded(th'[c].args[1]) # {}
       => /\ th'[c].snapshot \in C35_Recorded(th'[c].args[1])
          /\ \A k \in C35_Recorded(th'[c].args[1]) :
                widget_snapshots[k].fetched_at
                   <= widget_snapshots[th'[c].snapshot].fetched_at

C35_PagesReadRecorded == [][C35_PageRead]_vars

\* ---------------------------------------------------------------------------
\* C36: run_job_now does not consult the enabled flag: a call triggered as
\* manual, api or startup for a job whose definition is disabled takes the
\* free lock, inserts its run row, executes the body and commits the run
\* with the status of the body, and leaves the flag as it is; the flag
\* decides only whether a reload arms the cron trigger of the job.
C36_Disabled(c) ==
    /\ th[c].op = "run_job_now"
    /\ th[c].triggered_by \in {"manual", "api", "startup"}
    /\ th[c].job_id \in DOMAIN job_definitions
    /\ ~job_definitions[th[c].job_id].enabled

C36_Runs ==
    \A c \in Threads :
       C36_Disabled(c) /\ th'[c] # th[c] =>
          /\ (th[c].pc = "acquire" /\ th[c].lock \notin DOMAIN locked)
                => (th'[c].pc = "seed" /\ locked'[th[c].lock] = c)
          /\ th[c].pc = "open"
                => /\ th'[c].pc = "schedule"
                   /\ th'[c].run_id \in (DOMAIN job_runs') \ (DOMAIN job_runs)
                   /\ job_runs'[th'[c].run_id].status = "running"
                   /\ job_runs'[th'[c].run_id].triggered_by = th[c].triggered_by
          /\ th[c].pc = "body" => th'[c].pc = "finalize"
          /\ (th[c].pc = "finalize" /\ th'[c].exc = "")
                => /\ job_runs'[th[c].run_id].tx = NoThread
                   /\ job_runs'[th[c].run_id].status = th[c].status
                   /\ th[c].status \in {"success", "failed"}
          /\ th[c].job_id \in DOMAIN job_definitions'
          /\ ~job_definitions'[th[c].job_id].enabled

C36_Gates ==
    \A c \in Threads :
       (th[c].pc = "reload_add" /\ th'[c] # th[c] /\ ~Head(th[c].rows).enabled)
          => schedulers' = schedulers

C36_EnabledGatesCronOnly == [][C36_Runs /\ C36_Gates]_vars

\* A run of trade_corridors triggered as api or startup has been committed
\* as success while its definition is persisted as disabled.
C36_Witness ==
    \E c \in Threads :
       /\ C36_Disabled(c)
       /\ th[c].pc = "finally" /\ th[c].exc = ""
       /\ th[c].status = "success"
       /\ job_runs[th[c].run_id].tx = NoThread
       /\ job_runs[th[c].run_id].status = "success"
       /\ \E d \in Threads :
             /\ th[d].op = "update_job_definition" /\ th[d].pc = "done"
             /\ th[d].result.ok
             /\ th[d].job_id = th[c].job_id
             /\ ~th[d].args[3]

\* ---------------------------------------------------------------------------
\* C37: a run of a job that takes end_year, started without an end_year
\* override, uses the calendar year of the run minus one, also in the year
\* after update_job_definition saved default_params whose end_year was null
\* or absent.

\* run_job_now reads the definition and normalizes the merged parameters.
C37_Opens(c) ==
    /\ th[c].pc = "open"
    /\ th'[c].pc = "schedule"
    /\ th[c].job_id = "trade_exim_5y"
    /\ Get(th[c].params_override, "end_year") = PyNone

\* Every save of the checked behaviours left end_year null or absent. The
\* year of the run is that of its start or that of the normalization.
C37_EndYearFollowsCalendar ==
    [][\A c \in Threads :
          C37_Opens(c) => Get(th'[c].params, "end_year") \in
                             {PyInt(year(th[c].started) - 1), PyInt(_now_year - 1)}]_vars

\* ---------------------------------------------------------------------------
\* C38: fetch_wdi_indicator with force=false returns the unexpired entry of
\* its key, also one of a failed fetch, without contacting upstream; it never
\* returns an expired entry; with force=true it always contacts upstream and
\* replaces the entry.

C38_Key(f) == WdiKey(f.args[1], f.args[2], f.args[3])

C38_Unexpired(key) == key \in DOMAIN _CACHE /\ now < _CACHE[key].expires_at

\* A call of fetch_wdi_indicator by thread c.
C38_Call(c) == th[c].pc = "idle" /\ th'[c].op = "fetch_wdi_indicator"

\* The call returns the entry at once: upstream is not contacted and the cache
\* is left alone.
C38_Hit(c) ==
    /\ th'[c].pc = "done"
    /\ th'[c].fetched = <<WithCached(_CACHE[C38_Key(th'[c])].value, TRUE)>>
    /\ _CACHE' = _CACHE

\* Upstream has answered the call of c: the entry is replaced by the answer.
C38_Replaced(c) ==
    LET key == C38_Key(th[c])
    IN /\ th'[c].fetched[1].cached = FALSE
       /\ key \in DOMAIN _CACHE'
       /\ WithCached(_CACHE'[key].value, FALSE) = th'[c].fetched[1]
       /\ _CACHE'[key].expires_at = now + th[c].args[4]

C38_CacheServesUnexpired ==
    [][\A c \in Threads :
          /\ (C38_Call(c) /\ ~th'[c].args[5] /\ C38_Unexpired(C38_Key(th'[c]))) => C38_Hit(c)
          /\ (C38_Call(c) /\ th'[c].pc = "done") =>
                 /\ C38_Unexpired(C38_Key(th'[c]))
                 /\ ~th'[c].args[5]
          /\ (C38_Call(c) /\ th'[c].args[5]) => th'[c].pc = "urlopen"
          /\ (th[c].pc = "urlopen" /\ th'[c].pc = "done") => C38_Replaced(c)]_vars

\* Within the time to live of a failed fetch a call has returned the cached
\* failure, while the entry of another key has expired.
C38_Witness ==
    \E c \in Threads :
        /\ th[c].pc = "done"
        /\ th[c].op = "fetch_wdi_indicator"
        /\ th[c].fetched[1].cached
        /\ ~th[c].fetched[1].ok
        /\ now > 0
        /\ \E key \in DOMAIN _CACHE : now >= _CACHE[key].expires_at

\* ---------------------------------------------------------------------------
\* C39: every job's normalizer is idempotent and closed over a fixed key set:
\* normalizing what it returned gives the same again, and the result carries
\* exactly the job's declared keys, unknown input keys dropped; so parameters
\* stored in normalized form are not changed when a run normalizes them.

\* The keys of the dict each normalizer returns (lines 195-272).
C39_Keys(j) ==
    IF j = "trade_corridors" THEN {"force_wci"}
    ELSE IF j = "cleanup_snapshots" THEN {"keep_days"}
    ELSE IF j = "generate_homepage_insights"
    THEN {"lang", "geo_list", "scope", "card_key", "tab_key", "force_regen", "force_all"}
    ELSE IF j = "trade_exim_5y" THEN {"geo_list", "years", "end_year", "force"}
    ELSE IF j = "wealth_age_structure_latest"
    THEN {"geo_list", "end_year", "lookback_years", "force"}
    ELSE {"force"}

C39_Normalized(c) == th[c].op = "normalize_params" /\ th[c].pc = "done"

C39_NormalizeIdempotent ==
    \A c \in Threads :
       C39_Normalized(c) =>
          /\ DOMAIN th[c].params = C39_Keys(th[c].job_id)
          /\ normalize_params(th[c].job_id, th[c].params) = th[c].params

====
